---- MODULE Spec2Model ----
(***************************************************************************)
(* Verification model of the TcpC transport library:                       *)
(*   - the wire codec               (src/src/PacketUtils.c)                *)
(*   - the bounded blocking queue   (src/src/SafeQueue.c)                  *)
(*   - the server pipeline: shutdown, roster, traffic (src/src/TcpServer.c) *)
(*   - the client session           (src/src/TcpClient.c)                  *)
(* The specifications share one set of variables; each one drives its own  *)
(* group of variables and leaves the other groups at their initial value.  *)
(*                                                                         *)
(* Conventions.  A C pointer is modelled by the sequence of cells it       *)
(* points to, the null pointer by the empty sequence.  Byte buffers are    *)
(* sequences over 0..255 in memory order; C index i is sequence index i+1. *)
(* A function pointer is the name of the function, the null function       *)
(* pointer is "NULL".                                                      *)
(***************************************************************************)
EXTENDS Integers, Sequences, FiniteSets, TLC

VARIABLES
    \* ---- wire codec ----
    cPhase,     \* "input" | "framed" | "rejected" | "mutated" | "parsed" |
                \* "parsedMissing"
    cTarget,    \* target_code handed to Packet_Serialize
    cBody,      \* body handed to Packet_Serialize
    cEnc,       \* encrypt_func handed to Packet_Serialize
    cDec,       \* decrypt_func handed to Packet_Parse
    cMax,       \* max_buf_size
    cBuf,       \* the buffer: out_buffer of Serialize, in_buffer of Parse
    cRet,       \* return value of Packet_Serialize
    cInLen,     \* in_len handed to Packet_Parse
    cMut,       \* what was done to the frame between Serialize and Parse
    cFrame,     \* the buffer as Packet_Serialize left it
    cPre,       \* the buffer as it was handed to Packet_Parse
    cOut,       \* result and output parameters of Packet_Parse
    \* ---- bounded blocking queue ----
    queue,      \* the SafeQueue structure and its nodes
    cons,       \* per consumer thread: where it is in SafeQueue_Dequeue
    nextItem,   \* the item a producer offers next (a refused item is offered again)
    enqLog,     \* history: the items whose Enqueue returned true, in order
    deqLog,     \* history: the items returned by Dequeue, in order
    takers,     \* history: the consumers whose Dequeue has returned
    lastEnq,    \* history: the Enqueue call of the last step, and what it saw
    dropLog,    \* history: the calls of the drop function, in order
    destroyArg, \* history: the free_func SafeQueue_Destroy was called with
    promise,    \* history: consumers blocked when an item was enqueued
    \* ---- server pipeline ----
    is_running,   \* ctx->is_running
    worker_count, \* ctx->worker_count
    recv_queue,   \* ctx->recv_queue
    send_queue,   \* ctx->send_queue
    tasks,        \* the heap of ServerRecvTask / ServerSendTask structures
    iopc,         \* the thread that calls Run: "created" | "loop" | "returned"
    wpc,          \* per worker thread: where it is in WorkerThreadFunc
    spc,          \* the sender thread: where it is in SenderThreadFunc
    dpc,          \* the thread that calls Destroy: where it is
    di,           \* the loop counter i of Destroy
    nRecv,        \* number of tasks the read path has put on the recv queue
    nSend,        \* number of tasks Send / Broadcast have put on the send queue
    allocFailed,  \* history: a malloc of Destroy returned NULL
    \* ---- client session and the server it talks to ----
    listener,       \* the server at the address: "TcpServer" (this one) | "other"
    hello,          \* the bytes the listener writes to a client it accepted
    serverUp,       \* the listener is running and accepts
    cli_is_running, \* TcpClientContext.is_running
    sockfd,         \* TcpClientContext.sockfd
    cli_encrypt_fn, \* TcpClientContext.encrypt_fn
    cli_decrypt_fn, \* TcpClientContext.decrypt_fn
    npc,            \* the network thread: where it is in NetworkManagerThread
    sock,           \* the local variable sock of NetworkManagerThread
    jpc,            \* the thread that calls Disconnect: where it is
    conn,           \* the TCP connection of the client's socket, both ends
    shaken,         \* history: TryHandshake returned true on the open socket
    hsCode,         \* history: strategy_code of the last successful handshake
    strategySet,    \* history: SetStrategy called by the application since
    lastRecv,       \* history: what the last read of the Connected loop saw, and
                    \* whether a session was lost while the client was running
    snd,            \* the thread that calls Send: where it is, and its local fd
    lastSend,       \* history: the last call of Send that returned
    \* ---- server pipeline: roster, cipher pair, traffic ----
    client_list,       \* the list at ctx->client_list_head: the fds, head first
    client_list_mutex, \* ctx->client_list_mutex: "free" or the thread that holds it
    encrypt_fn,        \* ctx->encrypt_fn of the server
    decrypt_fn,        \* ctx->decrypt_fn of the server
    setpc,             \* the thread that calls SetStrategy: where it is, its arguments
    bcast,             \* the broadcast loop of the sender: its task, packet and curr
    held,              \* per worker: the task it dequeued and has not released
    wire,              \* per client fd: the bytes written by the client, not yet read
    wroteLog,          \* history: per client fd, the frames the client wrote
    callLog,           \* history: the calls of Send / Broadcast, in order
    writeLog,          \* history: the socket writes of the sender thread, in order
    recvLog,           \* history: the tasks the read path enqueued, in order
    cbLog,             \* history: the calls of on_message, in order
    current_client_count, \* ctx->current_client_count
    fdtab,             \* the descriptor table: per fd number the connection it
                       \* names (the n-th accepted), or NIL when it is closed
    io,                \* the I/O thread inside AddClient / the close branch of
                       \* the read path: where it is, and the fd
    lastAccept         \* history: the number of accepts so far, the fd of the
                       \* last one, whether one of its steps failed and
                       \* whether AddClient linked its node

codecVars == <<cPhase, cTarget, cBody, cEnc, cDec, cMax, cBuf, cRet, cInLen,
               cMut, cFrame, cPre, cOut>>

queueVars == <<queue, cons, nextItem, enqLog, deqLog, takers, lastEnq, dropLog, destroyArg,
               promise>>

serverVars == <<is_running, worker_count, recv_queue, send_queue, tasks, iopc, wpc,
                spc, dpc, di, nRecv, nSend, allocFailed>>

clientVars == <<listener, hello, serverUp, cli_is_running, sockfd, cli_encrypt_fn,
                cli_decrypt_fn, npc, sock, jpc, conn, shaken, hsCode, strategySet,
                lastRecv, snd, lastSend>>

pipeVars == <<client_list, client_list_mutex, encrypt_fn, decrypt_fn, setpc, bcast, held,
              wire, wroteLog, callLog, writeLog, recvLog, cbLog, current_client_count,
              fdtab, io, lastAccept>>

vars == <<codecVars, queueVars, serverVars, clientVars, pipeVars>>

-----------------------------------------------------------------------------
(* Program constants                                                       *)

TARGET_NAME_LEN == 8
CHECKSUM_LEN == 1
HEADER_SIZE == 12
XOR_KEY == 90

PKT_SUCCESS == 0
PKT_ERR_TOO_SHORT == 1
PKT_ERR_LENGTH_MISMATCH == 2
PKT_ERR_CHECKSUM_FAIL == 3
PKT_ERR_NULL_PTR == 4

NULL == <<>>

-----------------------------------------------------------------------------
(* Bounds of the codec model                                               *)

\* longest body drawn as an input
MaxBodyLen == 2

\* byte values bodies are drawn from
BodyBytes == {0, 90, 255}

\* characters targets are built from (none is NUL: targets are C strings)
TargetInputs ==
    { <<>>,
      <<67, 72, 65, 84>>,                           \* "CHAT"
      <<83, 69, 67, 95, 65, 82, 71>>,               \* "SEC_ARG"
      <<65, 66, 67, 68, 69, 70, 71, 72>>,           \* "ABCDEFGH"
      <<65, 66, 67, 68, 69, 70, 71, 72, 73>> }      \* "ABCDEFGHI"

CipherFuncs == {"NULL", "Packet_DefaultXor"}

\* content of memory that was allocated and never written
FillBytes == {205}

-----------------------------------------------------------------------------
(* Byte arithmetic                                                         *)

RECURSIVE XorBits(_, _, _)
XorBits(a, b, n) ==
    IF n = 0 THEN 0
    ELSE (((a % 2) + (b % 2)) % 2) + 2 * XorBits(a \div 2, b \div 2, n - 1)

Xor8(a, b) == XorBits(a, b, 8)

\* the length stored in host order on a little-endian machine (the htonl
\* forgotten): a plausible slip
htonl_Mut(n) ==
    << n % 256, (n \div 256) % 256, (n \div 65536) % 256, (n \div 16777216) % 256 >>

\* htonl followed by the store: the four bytes of n, most significant first
htonl(n) ==
    << (n \div 16777216) % 256, (n \div 65536) % 256, (n \div 256) % 256, n % 256 >>

\* the load followed by ntohl and the cast of the code's comparison,
\* (int)ntohl( header->total_len ): the four bytes, most significant first, as
\* a two's complement int32.  (The uint32 itself is never used where the two
\* differ: past the comparison it equals in_len, which is not negative.)
ntohl(b) ==
    (IF b[1] >= 128 THEN b[1] - 256 ELSE b[1]) * 16777216
        + b[2] * 65536 + b[3] * 256 + b[4]

\* strncpy( dst, src, n ) into a field of n bytes: the characters of src up to
\* n, then zero padding
strncpy(src, n) == [i \in 1..n |-> IF i <= Len(src) THEN src[i] ELSE 0]

\* buf with the bytes at C offsets off .. off+Len(bytes)-1 replaced
WriteAt(buf, off, bytes) ==
    [i \in 1..Len(buf) |->
        IF i > off /\ i <= off + Len(bytes) THEN bytes[i - off] ELSE buf[i]]

-----------------------------------------------------------------------------
(* PacketUtils.c                                                           *)

Packet_DefaultXor(data, len) ==
    [i \in 1..Len(data) |-> IF i <= len THEN Xor8(data[i], XOR_KEY) ELSE data[i]]

ApplyCipher(func, data, len) ==
    IF func = "Packet_DefaultXor" THEN Packet_DefaultXor(data, len) ELSE data

RECURSIVE SumBytes(_, _)
SumBytes(data, len) ==
    IF len <= 0 THEN 0 ELSE (SumBytes(data, len - 1) + data[len]) % 256

\* a checksum that loses the carry into the top bit: a plausible slip
Packet_CalcChecksum_Mut(data, len) == SumBytes(data, len) % 128

Packet_CalcChecksum(data, len) == SumBytes(data, len)

Packet_Serialize(out_buffer, max_buf_size, target_code, body_ptr, body_len, encrypt_func) ==
    LET total_len == HEADER_SIZE + body_len + CHECKSUM_LEN
    IN  IF total_len > max_buf_size
        THEN [ret |-> -1, out_buffer |-> out_buffer]
        ELSE
          LET b1 == WriteAt(out_buffer, 0, htonl(total_len))
              b2 == WriteAt(b1, 4, strncpy(target_code, TARGET_NAME_LEN))
              b3 == IF body_ptr # NULL /\ body_len > 0
                    THEN WriteAt(b2, HEADER_SIZE,
                                 ApplyCipher(encrypt_func,
                                             SubSeq(body_ptr, 1, body_len),
                                             body_len))
                    ELSE b2
              calc_range == HEADER_SIZE + body_len
              checksum == Packet_CalcChecksum(b3, calc_range)
          IN  [ret |-> total_len,
               out_buffer |-> WriteAt(b3, calc_range, <<checksum>>)]

\* a Parse that clears out_target before it validates the frame: a plausible
\* slip
ParseFail_Mut(code, in_buffer, out_target, out_body_ptr, out_body_len) ==
    [result |-> code, in_buffer |-> in_buffer,
     out_target |-> [i \in 1..Len(out_target) |-> 0],
     out_body_ptr |-> out_body_ptr, out_body_len |-> out_body_len]

\* an error return of Packet_Parse: nothing was written
ParseFail(code, in_buffer, out_target, out_body_ptr, out_body_len) ==
    [result |-> code, in_buffer |-> in_buffer, out_target |-> out_target,
     out_body_ptr |-> out_body_ptr, out_body_len |-> out_body_len]

\* a length test that accepts a buffer longer than the frame: a plausible slip
LengthDiffers_Mut(total_len, in_len) == total_len > in_len

LengthDiffers(total_len, in_len) == total_len # in_len

Packet_Parse(in_buffer, in_len, decrypt_func, out_target, out_body_ptr, out_body_len) ==
    LET min_len == HEADER_SIZE + CHECKSUM_LEN
    IN  IF in_len < min_len
        THEN ParseFail(PKT_ERR_TOO_SHORT, in_buffer, out_target, out_body_ptr,
                       out_body_len)
        ELSE
          LET total_len == ntohl(SubSeq(in_buffer, 1, 4))
          IN  IF LengthDiffers(total_len, in_len)
              THEN ParseFail(PKT_ERR_LENGTH_MISMATCH, in_buffer, out_target,
                             out_body_ptr, out_body_len)
              ELSE
                LET recv_checksum == in_buffer[in_len]
                    calc_checksum == Packet_CalcChecksum(in_buffer, in_len - 1)
                IN  IF recv_checksum # calc_checksum
                    THEN ParseFail(PKT_ERR_CHECKSUM_FAIL, in_buffer, out_target,
                                   out_body_ptr, out_body_len)
                    ELSE
                      LET body_len == total_len - HEADER_SIZE - CHECKSUM_LEN
                          field == SubSeq(in_buffer, 5, 4 + TARGET_NAME_LEN)
                          copied == WriteAt(out_target, 0, field)
                          body == SubSeq(in_buffer, HEADER_SIZE + 1,
                                         HEADER_SIZE + body_len)
                      IN  [result |-> PKT_SUCCESS,
                           in_buffer |->
                               IF decrypt_func # "NULL" /\ body_len > 0
                               THEN WriteAt(in_buffer, HEADER_SIZE,
                                        ApplyCipher(decrypt_func, body, body_len))
                               ELSE in_buffer,
                           out_target |->
                               IF out_target # NULL
                               THEN WriteAt(copied, TARGET_NAME_LEN - 1, <<0>>)
                               ELSE out_target,
                           out_body_ptr |->
                               IF out_body_ptr # NULL THEN <<HEADER_SIZE>>
                               ELSE out_body_ptr,
                           out_body_len |->
                               IF out_body_len # NULL THEN <<body_len>>
                               ELSE out_body_len]

-----------------------------------------------------------------------------
(* The codec as a state machine: one Serialize, at most one change of the  *)
(* frame or of the length handed on, one Parse.                            *)

RECURSIVE SeqsUpTo(_, _)
SeqsUpTo(S, n) ==
    IF n = 0 THEN { <<>> }
    ELSE LET shorter == SeqsUpTo(S, n - 1)
         IN  shorter \cup { Append(s, x) : s \in { t \in shorter : Len(t) = n - 1 },
                                            x \in S }

BodyInputs == SeqsUpTo(BodyBytes, MaxBodyLen)

\* buffer sizes: one that the longest body fits exactly, one that it misses by one
BufSizes == { HEADER_SIZE + CHECKSUM_LEN + MaxBodyLen,
              HEADER_SIZE + CHECKSUM_LEN + MaxBodyLen - 1 }

Fresh(n, fill) == [i \in 1..n |-> fill]

NoOut == [result |-> -1, in_buffer |-> <<>>, out_target |-> <<>>,
          out_body_ptr |-> <<>>, out_body_len |-> <<>>]

CodecInit ==
    /\ cPhase = "input"
    /\ cTarget \in TargetInputs
    /\ cBody \in BodyInputs
    /\ cEnc \in CipherFuncs
    /\ cDec \in CipherFuncs
    /\ cMax \in BufSizes
    /\ \E fill \in FillBytes : cBuf = Fresh(cMax, fill)
    /\ cRet = 0
    /\ cInLen = 0
    /\ cMut = [kind |-> "none", byte |-> 0, bit |-> 0]
    /\ cFrame = <<>>
    /\ cPre = <<>>
    /\ cOut = NoOut

CodecIdle ==
    /\ cPhase = "off"
    /\ cTarget = <<>> /\ cBody = <<>> /\ cEnc = "NULL" /\ cDec = "NULL"
    /\ cMax = 0 /\ cBuf = <<>> /\ cRet = 0 /\ cInLen = 0
    /\ cMut = [kind |-> "none", byte |-> 0, bit |-> 0]
    /\ cFrame = <<>> /\ cPre = <<>> /\ cOut = NoOut

\* the sender's call: Packet_Serialize( send_buf, size, target, body, len, enc )
Serialize ==
    /\ cPhase = "input"
    /\ LET r == Packet_Serialize(cBuf, cMax, cTarget, cBody, Len(cBody), cEnc)
       IN  /\ cRet' = r.ret
           /\ cBuf' = r.out_buffer
           /\ cFrame' = r.out_buffer
           /\ cInLen' = IF r.ret > 0 THEN r.ret ELSE 0
           /\ cPhase' = IF r.ret > 0 THEN "framed" ELSE "rejected"
    /\ UNCHANGED <<cTarget, cBody, cEnc, cDec, cMax, cMut, cPre, cOut>>
    /\ UNCHANGED <<queueVars, serverVars, clientVars, pipeVars>>

\* the network flips one bit of the frame
FlipBit(i, b) ==
    /\ cPhase = "framed"
    /\ cBuf' = [cBuf EXCEPT ![i] = Xor8(cBuf[i], 2 ^ b)]
    /\ cMut' = [kind |-> "flip", byte |-> i - 1, bit |-> b]
    /\ cPhase' = "mutated"
    /\ UNCHANGED <<cTarget, cBody, cEnc, cDec, cMax, cRet, cInLen, cFrame, cPre, cOut>>
    /\ UNCHANGED <<queueVars, serverVars, clientVars, pipeVars>>

\* the receiver hands on a length other than the frame's
ChangeInLen(n) ==
    /\ cPhase = "framed"
    /\ n # cInLen
    /\ cInLen' = n
    /\ cMut' = [kind |-> "inlen", byte |-> 0, bit |-> 0]
    /\ cPhase' = "mutated"
    /\ UNCHANGED <<cTarget, cBody, cEnc, cDec, cMax, cBuf, cRet, cFrame, cPre, cOut>>
    /\ UNCHANGED <<queueVars, serverVars, clientVars, pipeVars>>

\* the receiver's call: Packet_Parse( buf, len, dec, target_buf, &body_ptr, &body_len )
Parse ==
    /\ cPhase \in {"framed", "mutated"}
    /\ \E fill \in FillBytes :
         cOut' = Packet_Parse(cBuf, cInLen, cDec,
                              Fresh(TARGET_NAME_LEN + 1, fill), <<0>>, <<0>>)
    /\ cPre' = cBuf
    /\ cBuf' = cOut'.in_buffer
    /\ cPhase' = "parsed"
    /\ UNCHANGED <<cTarget, cBody, cEnc, cDec, cMax, cRet, cInLen, cMut, cFrame>>
    /\ UNCHANGED <<queueVars, serverVars, clientVars, pipeVars>>

\* what a load through a null in_buffer can do: the process is killed, or the
\* load yields some bytes and Packet_Parse goes on to one of its returns
Crashed == -2

NullLoadOutcomes ==
    {Crashed, PKT_SUCCESS, PKT_ERR_TOO_SHORT, PKT_ERR_LENGTH_MISMATCH,
     PKT_ERR_CHECKSUM_FAIL, PKT_ERR_NULL_PTR}

\* a call of Packet_Parse with some of its pointer arguments null: in_buffer
\* (no_in), out_target (no_target), out_body_ptr (no_ptr), out_body_len
\* (no_len); the frame is the one Packet_Serialize left, with its length
ParseMissing(no_in, no_target, no_ptr, no_len) ==
    /\ cPhase = "framed"
    /\ no_in \/ no_target \/ no_ptr \/ no_len
    /\ \E fill \in FillBytes :
         LET out_target == IF no_target THEN NULL
                           ELSE Fresh(TARGET_NAME_LEN + 1, fill)
             out_body_ptr == IF no_ptr THEN NULL ELSE <<0>>
             out_body_len == IF no_len THEN NULL ELSE <<0>>
         IN  IF no_in
             THEN /\ cPre' = NULL
                  /\ cBuf' = cBuf
                  /\ IF cInLen < HEADER_SIZE + CHECKSUM_LEN
                     THEN cOut' = ParseFail(PKT_ERR_TOO_SHORT, NULL, out_target,
                                            out_body_ptr, out_body_len)
                     ELSE \E r \in NullLoadOutcomes :
                            cOut' = ParseFail(r, NULL, out_target, out_body_ptr,
                                              out_body_len)
             ELSE /\ cPre' = cBuf
                  /\ cOut' = Packet_Parse(cBuf, cInLen, cDec, out_target,
                                          out_body_ptr, out_body_len)
                  /\ cBuf' = cOut'.in_buffer
    /\ cPhase' = "parsedMissing"
    /\ UNCHANGED <<cTarget, cBody, cEnc, cDec, cMax, cRet, cInLen, cMut, cFrame>>
    /\ UNCHANGED <<queueVars, serverVars, clientVars, pipeVars>>

CodecNext ==
    \/ Serialize
    \/ \E i \in 1..cRet, b \in 0..7 : FlipBit(i, b)
    \/ \E n \in 0..Len(cBuf) : ChangeInLen(n)
    \/ Parse
    \/ \E no_in, no_target, no_ptr, no_len \in BOOLEAN :
          ParseMissing(no_in, no_target, no_ptr, no_len)

-----------------------------------------------------------------------------
(* SafeQueue.c                                                             *)
(* An item pointer is a positive integer, a node pointer is the number of  *)
(* the node; NIL is the null pointer of both.  queue.nodes is the heap of  *)
(* the queue's nodes: its domain is the set of allocated nodes.  The       *)
(* critical sections of the queue run under its mutex, so each is one      *)
(* step; a consumer in pthread_cond_wait has released the mutex and is     *)
(* "waiting" until a signal (or a spurious wake-up) makes it "woken": it   *)
(* then takes the mutex again and tests the loop condition again.          *)

NIL == 0

\* bounds of the queue model
MaxCapacity == 2
NumConsumers == 2
MaxItems == 3

Consumers == 1..NumConsumers

NoQueue == [head |-> NIL, tail |-> NIL, count |-> 0, capacity |-> 0,
            nodes |-> <<>>, live |-> FALSE]

SafeQueue_Create(capacity) ==
    IF capacity <= 0 THEN NoQueue
    ELSE [head |-> NIL, tail |-> NIL, count |-> 0, capacity |-> capacity,
          nodes |-> <<>>, live |-> TRUE]

\* malloc( sizeof( Node ) ): a node that is not allocated, or NIL
Malloc(q, ok) ==
    IF ok THEN CHOOSE n \in 1..(Cardinality(DOMAIN q.nodes) + 1) : n \notin DOMAIN q.nodes
    ELSE NIL

\* the heap with one more node / with one node released
WithNode(nodes, n, node) ==
    [m \in (DOMAIN nodes) \cup {n} |-> IF m = n THEN node ELSE nodes[m]]

WithoutNode(nodes, n) == [m \in (DOMAIN nodes) \ {n} |-> nodes[m]]

\* a push at the head instead of the tail: a plausible slip
LinkNode_Mut(q, new_node, data) ==
    [q EXCEPT !.nodes = WithNode(q.nodes, new_node, [data |-> data, next |-> q.head]),
              !.head = new_node,
              !.tail = IF q.tail = NIL THEN new_node ELSE q.tail]

\* lines 119-141: fill the node and link it behind the tail
LinkNode(q, new_node, data) ==
    LET fresh == WithNode(q.nodes, new_node, [data |-> data, next |-> NIL])
    IN  IF q.tail = NIL
        THEN [q EXCEPT !.nodes = fresh, !.head = new_node, !.tail = new_node]
        ELSE [q EXCEPT !.nodes = [fresh EXCEPT ![q.tail].next = new_node],
                       !.tail = new_node]

\* a capacity test that is off by one: a plausible slip
HasRoom_Mut(q) == q.count <= q.capacity

HasRoom(q) == q.count < q.capacity

\* an Enqueue that links the node and forgets queue->count++: a plausible slip
SafeQueue_Enqueue_Mut(q, data, alloc_ok) ==
    IF q = NoQueue \/ data = NIL
    THEN [queue |-> q, result |-> FALSE, signal |-> FALSE]
    ELSE IF HasRoom(q)
         THEN LET new_node == Malloc(q, alloc_ok)
              IN  IF new_node # NIL
                  THEN [queue |-> LinkNode(q, new_node, data),
                        result |-> TRUE, signal |-> TRUE]
                  ELSE [queue |-> q, result |-> FALSE, signal |-> FALSE]
         ELSE [queue |-> q, result |-> FALSE, signal |-> FALSE]

\* SafeQueue_Enqueue( queue, data ) with the outcome of its malloc: the queue
\* it leaves, its return value and whether it called pthread_cond_signal
SafeQueue_Enqueue(q, data, alloc_ok) ==
    IF q = NoQueue \/ data = NIL
    THEN [queue |-> q, result |-> FALSE, signal |-> FALSE]
    ELSE IF HasRoom(q)
         THEN LET new_node == Malloc(q, alloc_ok)
              IN  IF new_node # NIL
                  THEN [queue |-> [LinkNode(q, new_node, data)
                                      EXCEPT !.count = q.count + 1],
                        result |-> TRUE, signal |-> TRUE]
                  ELSE [queue |-> q, result |-> FALSE, signal |-> FALSE]
         ELSE [queue |-> q, result |-> FALSE, signal |-> FALSE]

\* a Dequeue that returns the head's item and leaves the node linked: a
\* plausible slip
TakeHead_Mut(q) ==
    [queue |-> [q EXCEPT !.count = q.count - 1], data |-> q.nodes[q.head].data]

\* lines 169-179 of SafeQueue_Dequeue, run with count > 0: unlink the head
\* node, release it and hand back its item
TakeHead(q) ==
    LET target_node == q.head
        new_head == q.nodes[target_node].next
    IN  [queue |-> [q EXCEPT !.head = new_head,
                             !.tail = IF new_head = NIL THEN NIL ELSE q.tail,
                             !.count = q.count - 1,
                             !.nodes = WithoutNode(q.nodes, target_node)],
         data |-> q.nodes[target_node].data]

\* the nodes from current on, in list order
RECURSIVE NodesFrom(_, _)
NodesFrom(nodes, current) ==
    IF current = NIL THEN <<>>
    ELSE <<current>> \o NodesFrom(nodes, nodes[current].next)

\* the items of the nodes ns for which the drop function is called
RECURSIVE DropCalls(_, _, _)
DropCalls(nodes, ns, free_func) ==
    IF ns = <<>> THEN <<>>
    ELSE (IF free_func # "NULL" /\ nodes[Head(ns)].data # NIL
          THEN <<nodes[Head(ns)].data>> ELSE <<>>)
         \o DropCalls(nodes, Tail(ns), free_func)

\* a loop that stops at the last node instead of after it: a plausible slip
SafeQueue_Destroy_Mut(q, free_func) ==
    LET ns == NodesFrom(q.nodes, q.head)
        visited == IF ns = <<>> THEN ns ELSE SubSeq(ns, 1, Len(ns) - 1)
    IN  [queue |-> [q EXCEPT !.nodes = [m \in (DOMAIN q.nodes) \ {visited[i] : i \in 1..Len(visited)} |-> q.nodes[m]],
                             !.live = FALSE],
         dropped |-> DropCalls(q.nodes, visited, free_func)]

\* SafeQueue_Destroy( queue, free_func ): the released queue and the calls of
\* free_func it made.  The fields of a released queue keep their last value:
\* reading them is a use of freed memory.
SafeQueue_Destroy(q, free_func) ==
    LET ns == NodesFrom(q.nodes, q.head)
    IN  [queue |-> [q EXCEPT !.nodes = [m \in (DOMAIN q.nodes) \ {ns[i] : i \in 1..Len(ns)} |-> q.nodes[m]],
                             !.live = FALSE],
         dropped |-> DropCalls(q.nodes, ns, free_func)]

\* a signal that wakes nobody: a plausible slip (a forgotten signal)
pthread_cond_signal_Mut(waiting) == { {} }

\* pthread_cond_signal: the sets of threads it may wake, given the threads
\* waiting on the condition variable: one of them, or nobody if none waits
pthread_cond_signal(waiting) ==
    IF waiting = {} THEN { {} } ELSE { {w} : w \in waiting }

-----------------------------------------------------------------------------
(* The queue as a state machine: producers that offer fresh items (or the  *)
(* null pointer), consumers that call Dequeue, and one Destroy.            *)

Waiting == { c \in Consumers : cons[c] = "waiting" }
Blocked == { c \in Consumers : cons[c] \in {"waiting", "woken"} }

NoEnq == [called |-> FALSE, data |-> NIL, count |-> 0, capacity |-> 0,
          alloc_failed |-> FALSE, result |-> FALSE]

NoPromise == [set |-> {}, k |-> 0, got |-> 0, returns |-> 0]

Min(a, b) == IF a < b THEN a ELSE b

Kept(pr) == pr.got >= Min(pr.k, Cardinality(pr.set))

QueueInit ==
    /\ \E capacity \in 1..MaxCapacity : queue = SafeQueue_Create(capacity)
    /\ cons = [c \in Consumers |-> "idle"]
    /\ nextItem = 1
    /\ enqLog = <<>>
    /\ deqLog = <<>>
    /\ takers = {}
    /\ lastEnq = NoEnq
    /\ dropLog = <<>>
    /\ destroyArg = "none"
    /\ promise = NoPromise

QueueIdle ==
    /\ queue = NoQueue
    /\ cons = [c \in Consumers |-> "off"]
    /\ nextItem = 0
    /\ enqLog = <<>> /\ deqLog = <<>> /\ lastEnq = NoEnq /\ dropLog = <<>>
    /\ takers = {}
    /\ destroyArg = "none"
    /\ promise = NoPromise

\* a producer calls SafeQueue_Enqueue( queue, data )
Enqueue(data, alloc_ok) ==
    /\ queue.live
    /\ data # NIL => nextItem <= MaxItems
    /\ LET r == SafeQueue_Enqueue(queue, data, alloc_ok)
       IN  /\ queue' = r.queue
           /\ \E woken \in (IF r.signal THEN pthread_cond_signal(Waiting) ELSE { {} }) :
                cons' = [c \in Consumers |-> IF c \in woken THEN "woken" ELSE cons[c]]
           /\ enqLog' = IF r.result THEN Append(enqLog, data) ELSE enqLog
           /\ nextItem' = IF r.result THEN nextItem + 1 ELSE nextItem
           /\ lastEnq' = [called |-> TRUE, data |-> data, count |-> queue.count,
                          capacity |-> queue.capacity,
                          alloc_failed |-> (data # NIL /\ HasRoom(queue) /\ ~alloc_ok),
                          result |-> r.result]
           /\ promise' = IF r.result /\ Blocked # {}
                         THEN IF promise.set = {} \/ Kept(promise)
                              THEN [set |-> Blocked, k |-> 1, got |-> 0, returns |-> 0]
                              ELSE [promise EXCEPT !.k = @ + 1]
                         ELSE promise
    /\ UNCHANGED <<deqLog, takers, dropLog, destroyArg>>
    /\ UNCHANGED <<codecVars, serverVars, clientVars, pipeVars>>

\* the critical section of SafeQueue_Dequeue from the loop test on, run by
\* consumer c holding the mutex
DequeueBody(c) ==
    IF queue.count = 0
    THEN /\ cons' = [cons EXCEPT ![c] = "waiting"]
         /\ UNCHANGED <<queue, deqLog, takers, promise>>
    ELSE LET r == TakeHead(queue)
         IN  /\ queue' = r.queue
             /\ cons' = [cons EXCEPT ![c] = "idle"]
             /\ deqLog' = Append(deqLog, r.data)
             /\ takers' = takers \cup {c}
             /\ promise' = IF promise.set = {} THEN promise
                           ELSE [promise EXCEPT
                                   !.got = IF c \in promise.set THEN @ + 1 ELSE @,
                                   !.returns = @ + 1]

\* consumer c calls SafeQueue_Dequeue( queue )
DequeueCall(c) ==
    /\ queue.live
    /\ cons[c] = "idle"
    /\ DequeueBody(c)
    /\ lastEnq' = NoEnq
    /\ UNCHANGED <<nextItem, enqLog, dropLog, destroyArg>>
    /\ UNCHANGED <<codecVars, serverVars, clientVars, pipeVars>>

\* consumer c returns from pthread_cond_wait and tests the loop condition again
DequeueWake(c) ==
    /\ queue.live
    /\ cons[c] = "woken"
    /\ DequeueBody(c)
    /\ lastEnq' = NoEnq
    /\ UNCHANGED <<nextItem, enqLog, dropLog, destroyArg>>
    /\ UNCHANGED <<codecVars, serverVars, clientVars, pipeVars>>

\* pthread_cond_wait may return without a signal
SpuriousWake(c) ==
    /\ cons[c] = "waiting"
    /\ cons' = [cons EXCEPT ![c] = "woken"]
    /\ lastEnq' = NoEnq
    /\ UNCHANGED <<queue, nextItem, enqLog, deqLog, takers, dropLog, destroyArg, promise>>
    /\ UNCHANGED <<codecVars, serverVars, clientVars, pipeVars>>

\* the owner calls SafeQueue_Destroy( queue, free_func )
Destroy(free_func) ==
    /\ queue.live
    /\ LET r == SafeQueue_Destroy(queue, free_func)
       IN  /\ queue' = r.queue
           /\ dropLog' = dropLog \o r.dropped
    /\ destroyArg' = free_func
    /\ lastEnq' = NoEnq
    /\ UNCHANGED <<cons, nextItem, enqLog, deqLog, takers, promise>>
    /\ UNCHANGED <<codecVars, serverVars, clientVars, pipeVars>>

\* a consumer that returns from pthread_cond_wait after the queue was released
\* locks a destroyed mutex and reads freed memory
UseAfterFree(c) ==
    /\ ~queue.live
    /\ cons[c] = "woken"
    /\ cons' = [cons EXCEPT ![c] = "uaf"]
    /\ lastEnq' = NoEnq
    /\ UNCHANGED <<queue, nextItem, enqLog, deqLog, takers, dropLog, destroyArg, promise>>
    /\ UNCHANGED <<codecVars, serverVars, clientVars, pipeVars>>

QueueNext ==
    \/ \E data \in {NIL, nextItem}, alloc_ok \in BOOLEAN : Enqueue(data, alloc_ok)
    \/ \E c \in Consumers : DequeueCall(c)
    \/ \E c \in Consumers : DequeueWake(c)
    \/ \E c \in Consumers : SpuriousWake(c)
    \/ \E free_func \in {"NULL", "FreeItem"} : Destroy(free_func)
    \/ \E c \in Consumers : UseAfterFree(c)

-----------------------------------------------------------------------------
(* TcpServer.c: the pipeline of worker threads, sender thread and queues,  *)
(* and its shutdown.  A task pointer is a positive integer, the key of the *)
(* task in the heap `tasks`.  A thread that is "waiting" sits in           *)
(* pthread_cond_wait inside SafeQueue_Dequeue.                             *)

\* bounds of the server model
MaxWorkers == 2
MaxReads == 2
MaxSends == 1

Workers == 1..MaxWorkers

ClientFds == {5}

\* the descriptors accept can return for the clients of the pipeline
PipeFds == {5, 6}

\* the fds of the nodes of a roster
Fds(list) == { list[i] : i \in 1..Len(list) }

\* a roster function that does not take the mutex: a plausible slip
pthread_mutex_lock_Mut(mutex) == TRUE

\* pthread_mutex_lock( &ctx->client_list_mutex ) returns when the mutex is free
pthread_mutex_lock(mutex) == mutex = "free"

POISON_RECV == -1
POISON_SEND == -2

\* malloc of a task structure: the address is new each time (the n-th task of
\* the read path, the n-th task of Send, the pill of the i-th round of
\* Destroy, the pill of the sender), or NIL when malloc fails
ReadTask(n) == n
SendTask(n) == MaxReads + n
RecvPoison(i) == MaxReads + MaxSends + i
SendPoison == MaxReads + MaxSends + MaxWorkers + 1

NewTask(address, ok) == IF ok THEN address ELSE NIL

\* FreeRecvTask / FreeSendTask: the structure (and its buffer) is released
FreeTask(heap, t) == [u \in (DOMAIN heap) \ {t} |-> heap[u]]

RECURSIVE FreeTasks(_, _)
FreeTasks(heap, ts) ==
    IF ts = <<>> THEN heap ELSE FreeTasks(FreeTask(heap, Head(ts)), Tail(ts))

WithTask(heap, t, task) ==
    [u \in (DOMAIN heap) \cup {t} |-> IF u = t THEN task ELSE heap[u]]

\* a Send that does not test ctx->is_running: a plausible slip
impl_Server_Send_Mut(running, q, heap, address, client_fd, is_broadcast, task_ok, body_ok, node_ok) ==
    LET task == NewTask(address, task_ok)
    IN  IF task = NIL \/ ~body_ok
        THEN [result |-> FALSE, queue |-> q, tasks |-> heap, signal |-> FALSE]
        ELSE LET r == SafeQueue_Enqueue(q, task, node_ok)
             IN  [result |-> r.result, queue |-> r.queue,
                  tasks |-> IF r.result
                            THEN WithTask(heap, task,
                                     [kind |-> "send",
                                      client_fd |-> IF is_broadcast THEN -1 ELSE client_fd,
                                      is_broadcast |-> is_broadcast])
                            ELSE heap,
                  signal |-> r.signal]

\* impl_Server_Send / impl_Server_Broadcast with the outcomes of their
\* allocations: the return value, the send queue and the heap they leave
impl_Server_Send(running, q, heap, address, client_fd, is_broadcast, task_ok, body_ok, node_ok) ==
    IF ~running
    THEN [result |-> FALSE, queue |-> q, tasks |-> heap, signal |-> FALSE]
    ELSE LET task == NewTask(address, task_ok)
         IN  IF task = NIL \/ ~body_ok
             THEN [result |-> FALSE, queue |-> q, tasks |-> heap, signal |-> FALSE]
             ELSE LET r == SafeQueue_Enqueue(q, task, node_ok)
                  IN  [result |-> r.result, queue |-> r.queue,
                       tasks |-> IF r.result
                                 THEN WithTask(heap, task,
                                          [kind |-> "send",
                                           client_fd |-> IF is_broadcast THEN -1
                                                         ELSE client_fd,
                                           is_broadcast |-> is_broadcast])
                                 ELSE heap,
                       signal |-> r.signal]

\* a server that starts one worker too many: a plausible slip
ActiveWorkers_Mut == 1..(worker_count + 1)

\* the worker threads that pthread_create started: worker_count of them
ActiveWorkers == 1..worker_count

RecvWaiting == { w \in ActiveWorkers : wpc[w] = "waiting" }

SendWaiting == IF spc = "waiting" THEN {"sender"} ELSE {}

\* the worker threads after a signal on the recv queue's condition variable
WakeWorkers(signal) ==
    \E woken \in (IF signal THEN pthread_cond_signal(RecvWaiting) ELSE { {} }) :
        wpc' = [w \in Workers |-> IF w \in woken THEN "woken" ELSE wpc[w]]

\* the sender thread after a signal on the send queue's condition variable
WakeSender(signal) ==
    \E woken \in (IF signal THEN pthread_cond_signal(SendWaiting) ELSE { {} }) :
        spc' = IF "sender" \in woken THEN "woken" ELSE spc

\* CreateTcpServerContext( callback, arg, worker_count ), with the capacity of
\* the two queues as a parameter
ServerInit ==
    /\ is_running = FALSE
    /\ worker_count \in 1..MaxWorkers
    /\ \E capacity \in 1..MaxCapacity :
         /\ recv_queue = SafeQueue_Create(capacity)
         /\ send_queue = SafeQueue_Create(capacity)
    /\ tasks = <<>>
    /\ iopc = "created"
    /\ wpc = [w \in Workers |-> "none"]
    /\ spc = "none"
    /\ dpc = "idle"
    /\ di = 0
    /\ nRecv = 0
    /\ nSend = 0
    /\ allocFailed = FALSE

ServerIdle ==
    /\ is_running = FALSE /\ worker_count = 0
    /\ recv_queue = NoQueue /\ send_queue = NoQueue
    /\ tasks = <<>> /\ iopc = "off"
    /\ wpc = [w \in Workers |-> "none"]
    /\ spc = "none" /\ dpc = "off" /\ di = 0
    /\ nRecv = 0 /\ nSend = 0 /\ allocFailed = FALSE

\* impl_Server_Run up to the loop: the flag is set and the threads are created
RunStart ==
    /\ iopc = "created" /\ dpc = "idle"
    /\ is_running' = TRUE
    /\ wpc' = [w \in Workers |-> IF w \in ActiveWorkers THEN "loop" ELSE "none"]
    /\ spc' = "loop"
    /\ iopc' = "loop"
    /\ UNCHANGED <<worker_count, recv_queue, send_queue, tasks, dpc, di,
                   nRecv, nSend, allocFailed>>
    /\ UNCHANGED <<codecVars, queueVars, clientVars, pipeVars>>

\* the read path of the loop: recv returned len > 0 on client fd.  The task
\* and its buffer are released at once when a malloc fails or the queue
\* refuses the task.
ReadPath(fd, task_ok, node_ok) ==
    /\ iopc = "loop"
    /\ nRecv < MaxReads
    /\ LET task == NewTask(ReadTask(nRecv + 1), task_ok)
           r == SafeQueue_Enqueue(recv_queue, task, node_ok)
       IN  /\ recv_queue' = r.queue
           /\ tasks' = IF r.result
                       THEN WithTask(tasks, task, [kind |-> "recv", client_fd |-> fd])
                       ELSE tasks
           /\ nRecv' = IF r.result THEN nRecv + 1 ELSE nRecv
           /\ WakeWorkers(r.signal)
    /\ UNCHANGED <<is_running, worker_count, send_queue, iopc, spc, dpc, di, nSend,
                   allocFailed>>
    /\ UNCHANGED <<codecVars, queueVars, clientVars, pipeVars>>

\* the loop of impl_Server_Run ends: the flag is down or *exit_flag is set
RunReturn ==
    /\ iopc = "loop"
    /\ iopc' = "returned"
    /\ UNCHANGED <<is_running, worker_count, recv_queue, send_queue, tasks, wpc, spc, dpc, di, nRecv, nSend, allocFailed>>
    /\ UNCHANGED <<codecVars, queueVars, clientVars, pipeVars>>

\* while( ctx->is_running ) of WorkerThreadFunc
WorkerLoop(w) ==
    /\ wpc[w] = "loop"
    /\ wpc' = [wpc EXCEPT ![w] = IF is_running THEN "dequeue" ELSE "exited"]
    /\ UNCHANGED <<is_running, worker_count, recv_queue, send_queue, tasks, iopc, spc, dpc, di, nRecv, nSend, allocFailed>>
    /\ UNCHANGED <<codecVars, queueVars, clientVars, pipeVars>>

\* One round of the loop of WorkerThreadFunc from SafeQueue_Dequeue on (on
\* entry and after every return of pthread_cond_wait): with count == 0 the
\* worker waits; otherwise it takes the head task, and either it is the poison
\* pill, which the worker releases before it leaves the loop, or the worker
\* parses it, runs the callback on Success and releases it.  (A Send or
\* Broadcast made by the callback is a step of ApiSend.)
WorkerDequeue(w) ==
    /\ wpc[w] \in {"dequeue", "woken"}
    /\ IF recv_queue.count = 0
       THEN /\ wpc' = [wpc EXCEPT ![w] = "waiting"]
            /\ UNCHANGED <<recv_queue, tasks>>
       ELSE LET r == TakeHead(recv_queue)
                task == r.data
            IN  /\ recv_queue' = r.queue
                /\ tasks' = FreeTask(tasks, task)
                /\ wpc' = [wpc EXCEPT ![w] =
                             IF tasks[task].client_fd = POISON_RECV
                             THEN "exited" ELSE "loop"]
    /\ UNCHANGED <<is_running, worker_count, send_queue, iopc, spc, dpc, di, nRecv,
                   nSend, allocFailed>>
    /\ UNCHANGED <<codecVars, queueVars, clientVars, pipeVars>>

\* pthread_cond_wait of a worker may return without a signal
WorkerSpuriousWake(w) ==
    /\ wpc[w] = "waiting"
    /\ wpc' = [wpc EXCEPT ![w] = "woken"]
    /\ UNCHANGED <<is_running, worker_count, recv_queue, send_queue, tasks, iopc, spc, dpc, di, nRecv, nSend, allocFailed>>
    /\ UNCHANGED <<codecVars, queueVars, clientVars, pipeVars>>

\* a thread of the application, or the callback run by a worker, calls Send
\* or Broadcast
ApiSend(fd, is_broadcast, task_ok, body_ok, node_ok) ==
    /\ iopc # "created" /\ dpc # "done"
    /\ nSend < MaxSends
    /\ LET r == impl_Server_Send(is_running, send_queue, tasks, SendTask(nSend + 1), fd,
                                 is_broadcast, task_ok, body_ok, node_ok)
       IN  /\ send_queue' = r.queue
           /\ tasks' = r.tasks
           /\ nSend' = IF r.result THEN nSend + 1 ELSE nSend
           /\ WakeSender(r.signal)
    /\ UNCHANGED <<is_running, worker_count, recv_queue, iopc, wpc, dpc, di, nRecv,
                   allocFailed>>
    /\ UNCHANGED <<codecVars, queueVars, clientVars, pipeVars>>

\* while( ctx->is_running ) of SenderThreadFunc
SenderLoop ==
    /\ spc = "loop"
    /\ spc' = IF is_running THEN "dequeue" ELSE "exited"
    /\ UNCHANGED <<is_running, worker_count, recv_queue, send_queue, tasks, iopc, wpc,
                   dpc, di, nRecv, nSend, allocFailed>>
    /\ UNCHANGED <<codecVars, queueVars, clientVars, pipeVars>>

\* One round of the loop of SenderThreadFunc from SafeQueue_Dequeue on: with
\* count == 0 the sender waits; otherwise it takes the head task, and either
\* it is the poison pill, which ends the thread, or the task is serialized and
\* written; the task is released.
SenderDequeue ==
    /\ spc \in {"dequeue", "woken"}
    /\ IF send_queue.count = 0
       THEN /\ spc' = "waiting"
            /\ UNCHANGED <<send_queue, tasks>>
       ELSE LET r == TakeHead(send_queue)
                task == r.data
            IN  /\ send_queue' = r.queue
                /\ tasks' = FreeTask(tasks, task)
                /\ spc' = IF tasks[task].client_fd = POISON_SEND
                          THEN "exited" ELSE "loop"
    /\ UNCHANGED <<is_running, worker_count, recv_queue, iopc, wpc, dpc, di, nRecv,
                   nSend, allocFailed>>
    /\ UNCHANGED <<codecVars, queueVars, clientVars, pipeVars>>

\* pthread_cond_wait of the sender may return without a signal
SenderSpuriousWake ==
    /\ spc = "waiting"
    /\ spc' = "woken"
    /\ UNCHANGED <<is_running, worker_count, recv_queue, send_queue, tasks, iopc, wpc,
                   dpc, di, nRecv, nSend, allocFailed>>
    /\ UNCHANGED <<codecVars, queueVars, clientVars, pipeVars>>

\* impl_Server_Destroy is called.  Destroy releases the context and joins only
\* the workers and the sender, so its caller has let Run return first, as
\* main() of examples/MainServer.c does.
DestroyBegin ==
    /\ dpc = "idle" /\ iopc = "returned"
    /\ is_running' = FALSE
    /\ dpc' = "poison"
    /\ di' = 0
    /\ UNCHANGED <<worker_count, recv_queue, send_queue, tasks, iopc, wpc, spc,
                   nRecv, nSend, allocFailed>>
    /\ UNCHANGED <<codecVars, queueVars, clientVars, pipeVars>>

\* one round of the first loop of Destroy: a poison pill for a worker.  The
\* return value of SafeQueue_Enqueue is not looked at.
DestroyPoison(task_ok, node_ok) ==
    /\ dpc = "poison" /\ di < worker_count
    /\ di' = di + 1
    /\ LET poison == NewTask(RecvPoison(di + 1), task_ok)
       IN  IF poison = NIL
           THEN /\ UNCHANGED <<recv_queue, tasks, wpc>>
                /\ allocFailed' = TRUE
           ELSE LET r == SafeQueue_Enqueue(recv_queue, poison, node_ok)
                IN  /\ recv_queue' = r.queue
                    /\ tasks' = WithTask(tasks, poison,
                                    [kind |-> "recv", client_fd |-> POISON_RECV])
                    /\ WakeWorkers(r.signal)
                    /\ allocFailed' = (allocFailed \/ (HasRoom(recv_queue) /\ ~node_ok))
    /\ UNCHANGED <<is_running, worker_count, send_queue, iopc, spc, dpc,
                   nRecv, nSend>>
    /\ UNCHANGED <<codecVars, queueVars, clientVars, pipeVars>>

\* the poison pill for the sender thread
DestroyPoisonSend(task_ok, node_ok) ==
    /\ dpc = "poison" /\ di = worker_count
    /\ dpc' = "join"
    /\ di' = 0
    /\ LET poison == NewTask(SendPoison, task_ok)
       IN  IF poison = NIL
           THEN /\ UNCHANGED <<send_queue, tasks, spc>>
                /\ allocFailed' = TRUE
           ELSE LET r == SafeQueue_Enqueue(send_queue, poison, node_ok)
                IN  /\ send_queue' = r.queue
                    /\ tasks' = WithTask(tasks, poison,
                                    [kind |-> "send", client_fd |-> POISON_SEND,
                                     is_broadcast |-> FALSE])
                    /\ WakeSender(r.signal)
                    /\ allocFailed' = (allocFailed \/ (HasRoom(send_queue) /\ ~node_ok))
    /\ UNCHANGED <<is_running, worker_count, recv_queue, iopc, wpc, nRecv,
                   nSend>>
    /\ UNCHANGED <<codecVars, queueVars, clientVars, pipeVars>>

\* pthread_join( ctx->worker_threads[i] ) returns once that worker has ended
DestroyJoinWorker ==
    /\ dpc = "join" /\ di < worker_count
    /\ wpc[di + 1] = "exited"
    /\ di' = di + 1
    /\ UNCHANGED <<is_running, worker_count, recv_queue, send_queue, tasks, iopc, wpc,
                   spc, dpc, nRecv, nSend, allocFailed>>
    /\ UNCHANGED <<codecVars, queueVars, clientVars, pipeVars>>

\* pthread_join( ctx->sender_thread ) returns once the sender has ended
DestroyJoinSender ==
    /\ dpc = "join" /\ di = worker_count
    /\ spc = "exited"
    /\ dpc' = "release"
    /\ UNCHANGED <<is_running, worker_count, recv_queue, send_queue, tasks, iopc, wpc,
                   spc, di, nRecv, nSend, allocFailed>>
    /\ UNCHANGED <<codecVars, queueVars, clientVars, pipeVars>>

\* the rest of Destroy: both queues are destroyed with their drop functions;
\* under the roster mutex every fd of the roster is closed, its node freed
\* and the head set to NULL (the cached count is left as it is); the mutex
\* is destroyed
DestroyRelease ==
    /\ dpc = "release"
    /\ pthread_mutex_lock(client_list_mutex)
    /\ LET r == SafeQueue_Destroy(recv_queue, "FreeRecvTask")
           s == SafeQueue_Destroy(send_queue, "FreeSendTask")
       IN  /\ recv_queue' = r.queue
           /\ send_queue' = s.queue
           /\ tasks' = FreeTasks(FreeTasks(tasks, r.dropped), s.dropped)
    /\ fdtab' = [fd \in PipeFds |-> IF fd \in Fds(client_list) THEN NIL ELSE fdtab[fd]]
    /\ client_list' = <<>>
    /\ client_list_mutex' = "destroyed"
    /\ dpc' = "done"
    /\ UNCHANGED <<is_running, worker_count, iopc, wpc, spc, di, nRecv,
                   nSend, allocFailed>>
    /\ UNCHANGED <<encrypt_fn, decrypt_fn, setpc, bcast, held, wire, wroteLog, callLog,
                   writeLog, recvLog, cbLog, current_client_count, io, lastAccept>>
    /\ UNCHANGED <<codecVars, queueVars, clientVars>>

\* impl_Server_Destroy is called on a context whose Run was never called, as
\* main() of examples/MainServer.c does when Init returns false: no thread
\* was created
DestroyUnstarted ==
    /\ dpc = "idle" /\ iopc = "created"
    /\ is_running' = FALSE
    /\ dpc' = "poison"
    /\ di' = 0
    /\ UNCHANGED <<worker_count, recv_queue, send_queue, tasks, iopc, wpc, spc,
                   nRecv, nSend, allocFailed>>
    /\ UNCHANGED <<codecVars, queueVars, clientVars, pipeVars>>

\* what pthread_join can do with a pthread_t that pthread_create never
\* filled (the malloc'ed worker_threads[i], the zeroed sender_thread): the
\* behaviour is undefined; it may return an error, fault, or wait for ever
JoinOutcomes == {"returned", "crashed", "hung"}

\* pthread_join( ctx->worker_threads[i] ) and pthread_join( ctx->sender_thread )
\* of Destroy on threads that were never created
DestroyJoinUnstarted(outcome) ==
    /\ dpc = "join" /\ iopc = "created"
    /\ IF outcome = "returned"
       THEN /\ di' = IF di < worker_count THEN di + 1 ELSE di
            /\ dpc' = IF di < worker_count THEN "join" ELSE "release"
       ELSE /\ dpc' = outcome
            /\ UNCHANGED di
    /\ UNCHANGED <<is_running, worker_count, recv_queue, send_queue, tasks, iopc, wpc,
                   spc, nRecv, nSend, allocFailed>>
    /\ UNCHANGED <<codecVars, queueVars, clientVars, pipeVars>>

\* Destroy without Run
UnstartedNext ==
    \/ DestroyUnstarted
    \/ \E task_ok, node_ok \in BOOLEAN : DestroyPoison(task_ok, node_ok)
    \/ \E task_ok, node_ok \in BOOLEAN : DestroyPoisonSend(task_ok, node_ok)
    \/ \E outcome \in JoinOutcomes : DestroyJoinUnstarted(outcome)
    \/ DestroyRelease

ServerNext ==
    \/ RunStart
    \/ \E fd \in ClientFds, task_ok, node_ok \in BOOLEAN :
          ReadPath(fd, task_ok, node_ok)
    \/ RunReturn
    \/ \E w \in Workers : WorkerLoop(w)
    \/ \E w \in Workers : WorkerDequeue(w)
    \/ \E w \in Workers : WorkerSpuriousWake(w)
    \/ \E fd \in ClientFds, is_broadcast, task_ok, body_ok, node_ok \in BOOLEAN :
          ApiSend(fd, is_broadcast, task_ok, body_ok, node_ok)
    \/ SenderLoop
    \/ SenderDequeue
    \/ SenderSpuriousWake
    \/ DestroyBegin
    \/ \E task_ok, node_ok \in BOOLEAN : DestroyPoison(task_ok, node_ok)
    \/ \E task_ok, node_ok \in BOOLEAN : DestroyPoisonSend(task_ok, node_ok)
    \/ DestroyJoinWorker
    \/ DestroyJoinSender
    \/ DestroyRelease

-----------------------------------------------------------------------------
(* TcpClient.c: the client session, and the server end of its connection   *)

DEFAULT_BUF_SIZE == 4096

SEC_STRATEGY_NONE == 0
SEC_STRATEGY_XOR == 1

\* sockfd of a session without a connection
NO_FD == -1

\* the descriptor socket() returns: the lowest free one, the same each time,
\* since the session closes a socket before it opens the next
SOCK_FD == 3

\* "SEC_ARG" with its terminating NUL
TARGET_SEC_STRATEGY == <<83, 69, 67, 95, 65, 82, 71, 0>>

\* application frames the listener writes on one connection
MaxWrites == 1

\* the registry
Packet_GetEncryptFunc(strategy_code) ==
    IF strategy_code = SEC_STRATEGY_XOR THEN "Packet_DefaultXor" ELSE "NULL"

\* a registry whose default falls through to the XOR case: a plausible slip
Packet_GetDecryptFunc_Mut(strategy_code) ==
    IF strategy_code = SEC_STRATEGY_NONE THEN "NULL" ELSE "Packet_DefaultXor"

Packet_GetDecryptFunc(strategy_code) ==
    IF strategy_code = SEC_STRATEGY_XOR THEN "Packet_DefaultXor" ELSE "NULL"

\* the pairs an application gets from the registry and hands to SetStrategy
StrategyPairs == { <<Packet_GetEncryptFunc(c), Packet_GetDecryptFunc(c)>> :
                     c \in {SEC_STRATEGY_NONE, SEC_STRATEGY_XOR} }

\* the characters of the C string at buf, at most n of them
CStr(buf, n) ==
    LET m == Min(n, Len(buf))
        nul == { i \in 1..m : buf[i] = 0 }
    IN  IF nul = {} THEN SubSeq(buf, 1, m)
        ELSE SubSeq(buf, 1, (CHOOSE i \in nul : \A j \in nul : i <= j) - 1)

\* strncmp( a, b, n ) == 0
strncmp(a, b, n) == IF CStr(a, n) = CStr(b, n) THEN 0 ELSE 1

\* the int32_t at four bytes of a little-endian host (strategy_pkt->strategy_code)
LoadInt32(b) ==
    b[1] + b[2] * 256 + b[3] * 65536
        + (IF b[4] >= 128 THEN b[4] - 256 ELSE b[4]) * 16777216

\* the same int32_t stored by a struct copy on such a host
StoreInt32(n) ==
    << n % 256, (n \div 256) % 256, (n \div 65536) % 256, (n \div 16777216) % 256 >>

\* total_len > DEFAULT_BUF_SIZE || total_len < header_size, on the uint32_t
\* that ntohl gives for the first four bytes b of the header
LenOutOfRange(b) ==
    \/ b[1] >= 128
    \/ ntohl(b) > DEFAULT_BUF_SIZE
    \/ ntohl(b) < HEADER_SIZE

\* the frame Packet_Serialize writes into a buffer of DEFAULT_BUF_SIZE bytes
Frame(target, body, encrypt_func) ==
    LET n == HEADER_SIZE + Len(body) + CHECKSUM_LEN
    IN  Packet_Serialize(Fresh(n, 0), DEFAULT_BUF_SIZE, target, body, Len(body),
                         encrypt_func).out_buffer

\* f with its last byte changed
Corrupt(f) == [i \in 1..Len(f) |-> IF i = Len(f) THEN (f[i] + 1) % 256 ELSE f[i]]

\* what this server writes to a client it accepted: the characters of "ENC:XOR"
handshake_msg == <<69, 78, 67, 58, 88, 79, 82>>

\* what another server may write first: the handshake frame for a code the
\* registry knows or not, and frames that are not a handshake
OtherHellos ==
    { Frame(SubSeq(TARGET_SEC_STRATEGY, 1, 7), StoreInt32(c), "NULL") : c \in {0, 1, 2} }
    \cup { Frame(<<67, 72, 65, 84>>, StoreInt32(1), "NULL"),
           Frame(SubSeq(TARGET_SEC_STRATEGY, 1, 7), <<1, 0, 0>>, "NULL"),
           Frame(SubSeq(TARGET_SEC_STRATEGY, 1, 7), <<0, 0, 0, 0, 0>>, "NULL"),
           Frame(<<83, 69, 67, 95, 65, 82, 71, 88>>, StoreInt32(1), "NULL"),
           Corrupt(Frame(SubSeq(TARGET_SEC_STRATEGY, 1, 7), StoreInt32(1), "NULL")),
           htonl(DEFAULT_BUF_SIZE + 1) \o SubSeq(TARGET_SEC_STRATEGY, 1, 8),
           htonl(HEADER_SIZE) \o SubSeq(TARGET_SEC_STRATEGY, 1, 8) }

\* application frames: what the sender thread of this server writes
\* (ctx->encrypt_fn is Packet_DefaultXor from the constructor on)
ServerFrames == { Frame(<<67, 72, 65, 84>>, <<7>>, "Packet_DefaultXor") }

\* application frames of another server: sound ones, and ones that are not
OtherFrames ==
    ServerFrames
    \cup { Frame(<<67, 72, 65, 84>>, <<7>>, "NULL"),
           Corrupt(Frame(<<67, 72, 65, 84>>, <<7>>, "NULL")),
           htonl(DEFAULT_BUF_SIZE + 1) \o Fresh(8, 65),
           htonl(HEADER_SIZE - 1) \o Fresh(8, 65),
           htonl(HEADER_SIZE) \o Fresh(8, 65) }

NoConn == [open |-> FALSE, wire |-> <<>>, accepted |-> FALSE, greeted |-> FALSE,
           wrote |-> 0, peerClosed |-> FALSE, shut |-> FALSE, first |-> <<>>]

NoRecv == [kind |-> "none", frame |-> <<>>, called |-> FALSE, lost |-> FALSE]

\* the thread that calls Send: the fd it read from sockfd, the length of the
\* body it was given, and whether that fd was closed since it read it
NoSnd == [pc |-> "idle", running |-> FALSE, fd |-> NO_FD, body_len |-> 0,
          stale |-> FALSE]

NoSend == [called |-> FALSE, running |-> FALSE, fd |-> NO_FD, body_len |-> 0,
           enc |-> "NULL", ret |-> 0, writes |-> 0, bytes |-> <<>>,
           stale |-> FALSE, open |-> FALSE]

\* a reset that closes the socket and keeps naming it: a plausible slip
ResetConnection_Mut(c) ==
    [sockfd |-> c.sockfd,
     encrypt_fn |-> "Packet_DefaultXor", decrypt_fn |-> "Packet_DefaultXor",
     closed |-> IF c.sockfd # NO_FD THEN Append(c.closed, c.sockfd) ELSE c.closed]

\* ResetConnection on the fields of the context; closed lists the
\* descriptors handed to close()
ResetConnection(c) ==
    [sockfd |-> NO_FD,
     encrypt_fn |-> "Packet_DefaultXor", decrypt_fn |-> "Packet_DefaultXor",
     closed |-> IF c.sockfd # NO_FD THEN Append(c.closed, c.sockfd) ELSE c.closed]

\* the fields of the context ResetConnection works on
Ctx == [sockfd |-> sockfd, encrypt_fn |-> cli_encrypt_fn,
        decrypt_fn |-> cli_decrypt_fn, closed |-> <<>>]

\* the Send in progress, after the descriptors in closed were closed
AfterClose(closed) == [snd EXCEPT !.stale = @ \/ (snd.pc = "write" /\ closed # <<>>)]

\* what the reads of one frame come to, RecvExact for the header and then for
\* the rest: "block" while bytes are missing and the stream is open, "closed"
\* when recv returns 0 or -1 first, "badlen" for a total_len out of range,
\* "frame" when total_len bytes were read
ReadOutcome(c) ==
    LET eof == c.peerClosed \/ c.shut
    IN  IF Len(c.wire) < HEADER_SIZE
        THEN (IF eof THEN "closed" ELSE "block")
        ELSE IF LenOutOfRange(SubSeq(c.wire, 1, 4)) THEN "badlen"
        ELSE IF Len(c.wire) < ntohl(SubSeq(c.wire, 1, 4))
        THEN (IF eof THEN "closed" ELSE "block")
        ELSE "frame"

\* the bytes RecvExact left in buffer, and the stream after them
FrameRead(c) == SubSeq(c.wire, 1, ntohl(SubSeq(c.wire, 1, 4)))

AfterFrame(c) ==
    [c EXCEPT !.wire = SubSeq(c.wire, ntohl(SubSeq(c.wire, 1, 4)) + 1, Len(c.wire))]

\* steps 4 and 5 of TryHandshake on the frame in buffer: parse without a
\* cipher, compare the target, test the length, read the code
TryHandshake(buffer, fill) ==
    LET verdicts ==
          { IF r.result # PKT_SUCCESS THEN [ok |-> FALSE, code |-> 0]
            ELSE IF strncmp(r.out_target, TARGET_SEC_STRATEGY, TARGET_NAME_LEN) # 0
            THEN [ok |-> FALSE, code |-> 0]
            ELSE IF r.out_body_len[1] < 4 THEN [ok |-> FALSE, code |-> 0]
            ELSE [ok |-> TRUE,
                  code |-> LoadInt32(SubSeq(r.in_buffer, HEADER_SIZE + 1,
                                            HEADER_SIZE + 4))] :
            r \in { Packet_Parse(buffer, Len(buffer), "NULL",
                                 Fresh(TARGET_NAME_LEN, fill), <<0>>, <<0>>) } }
    IN  CHOOSE h \in verdicts : TRUE

\* a test that lets every frame but one with a wrong checksum through to the
\* callback: a plausible slip
Deliverable_Mut(result) == result # PKT_ERR_CHECKSUM_FAIL

\* the test of the receive loop: Packet_Parse( ... ) == PKT_SUCCESS
Deliverable(result) == result = PKT_SUCCESS

\* a thread that gives up after a failed attempt: a plausible slip
AfterFailure_Mut == "cleanup"

\* where a failed connect or handshake goes on: sleep( 1 ), then continue
AfterFailure == "sleep"

\* a socket stored whatever the handshake said: a plausible slip
StoreSocket_Mut(ok, s) == s

\* ctx->sockfd after line 193..198: sock when TryHandshake returned true
StoreSocket(ok, s) == IF ok THEN s ELSE sockfd

impl_IsConnected == cli_is_running /\ sockfd # NO_FD

\* CreateTcpClientContext, with this server or another at the address
ClientInit ==
    /\ \/ listener = "TcpServer" /\ hello = handshake_msg
       \/ listener = "other" /\ hello \in OtherHellos
    /\ serverUp = TRUE
    /\ cli_is_running = FALSE
    /\ sockfd = NO_FD
    /\ cli_encrypt_fn = "Packet_DefaultXor"
    /\ cli_decrypt_fn = "Packet_DefaultXor"
    /\ npc = "none"
    /\ sock = NO_FD
    /\ jpc = "idle"
    /\ conn = NoConn
    /\ shaken = FALSE
    /\ hsCode = 0
    /\ strategySet = FALSE
    /\ lastRecv = NoRecv
    /\ snd = NoSnd
    /\ lastSend = NoSend

ClientIdle ==
    /\ listener = "off" /\ hello = <<>> /\ serverUp = FALSE
    /\ cli_is_running = FALSE /\ sockfd = NO_FD
    /\ cli_encrypt_fn = "NULL" /\ cli_decrypt_fn = "NULL"
    /\ npc = "off" /\ sock = NO_FD /\ jpc = "off" /\ conn = NoConn
    /\ shaken = FALSE /\ hsCode = 0 /\ strategySet = FALSE /\ lastRecv = NoRecv
    /\ snd = [NoSnd EXCEPT !.pc = "off"] /\ lastSend = NoSend

ClientRest == <<codecVars, queueVars, serverVars, pipeVars, snd, lastSend>>

SendRest == <<codecVars, queueVars, serverVars, pipeVars>>

\* impl_Connect: starts the network thread
Connect ==
    /\ npc = "none" /\ jpc = "idle"
    /\ cli_is_running' = TRUE
    /\ npc' = "check"
    /\ UNCHANGED <<listener, hello, serverUp, sockfd, cli_encrypt_fn, cli_decrypt_fn,
                   sock, jpc, conn, shaken, hsCode, strategySet, lastRecv>>
    /\ UNCHANGED ClientRest

\* the head of the loop: while( ctx->is_running ), then the read of sockfd
LoopCheck ==
    /\ npc = "check"
    /\ npc' = IF ~cli_is_running THEN "cleanup"
              ELSE IF sockfd = NO_FD THEN "connect" ELSE "recv"
    /\ lastRecv' = [NoRecv EXCEPT !.lost = lastRecv.lost]
    /\ UNCHANGED <<listener, hello, serverUp, cli_is_running, sockfd, cli_encrypt_fn,
                   cli_decrypt_fn, sock, jpc, conn, shaken, hsCode, strategySet>>
    /\ UNCHANGED ClientRest

\* TryConnect: the connect succeeds when the listener is up, and fails otherwise
TryConnect ==
    /\ npc = "connect"
    /\ IF serverUp
       THEN /\ sock' = SOCK_FD
            /\ conn' = [NoConn EXCEPT !.open = TRUE]
            /\ npc' = "handshake"
       ELSE /\ sock' = NO_FD
            /\ conn' = conn
            /\ npc' = AfterFailure
    /\ shaken' = FALSE
    /\ UNCHANGED <<listener, hello, serverUp, cli_is_running, sockfd, cli_encrypt_fn,
                   cli_decrypt_fn, jpc, hsCode, strategySet, lastRecv>>
    /\ UNCHANGED ClientRest

\* TryHandshake and what the loop does with its result.  The thread stays in
\* recv for as long as bytes are missing and the peer has not closed: nobody
\* else knows this socket.
Handshake ==
    /\ npc = "handshake"
    /\ ReadOutcome(conn) # "block"
    /\ \E fill \in FillBytes :
       \E h \in { IF ReadOutcome(conn) = "frame"
                  THEN TryHandshake(FrameRead(conn), fill)
                  ELSE [ok |-> FALSE, code |-> 0] } :
             /\ sockfd' = StoreSocket(h.ok, sock)
             /\ IF h.ok
                THEN /\ cli_encrypt_fn' = Packet_GetEncryptFunc(h.code)
                     /\ cli_decrypt_fn' = Packet_GetDecryptFunc(h.code)
                     /\ hsCode' = h.code
                     /\ strategySet' = FALSE
                     /\ shaken' = TRUE
                     /\ conn' = AfterFrame(conn)
                     /\ npc' = "check"
                ELSE /\ conn' = NoConn
                     /\ npc' = AfterFailure
                     /\ UNCHANGED <<cli_encrypt_fn, cli_decrypt_fn, hsCode,
                                    strategySet, shaken>>
    /\ UNCHANGED <<listener, hello, serverUp, cli_is_running, sock, jpc, lastRecv>>
    /\ UNCHANGED ClientRest

\* sleep( 1 ); continue
Sleep ==
    /\ npc = "sleep"
    /\ npc' = "check"
    /\ UNCHANGED <<listener, hello, serverUp, cli_is_running, sockfd, cli_encrypt_fn,
                   cli_decrypt_fn, sock, jpc, conn, shaken, hsCode, strategySet,
                   lastRecv>>
    /\ UNCHANGED ClientRest

\* one turn of the Connected loop: header, length test, body, parse, and then
\* the callback or ResetConnection
Receive ==
    /\ npc = "recv"
    /\ ReadOutcome(conn) # "block"
    /\ \E fill \in FillBytes :
       \E o \in { ReadOutcome(conn) } :
       \E buffer \in { IF o = "frame" THEN FrameRead(conn) ELSE <<>> } :
       \E r \in { IF o = "frame"
                  THEN Packet_Parse(buffer, Len(buffer), cli_decrypt_fn,
                                    Fresh(TARGET_NAME_LEN, fill), <<0>>, <<0>>)
                  ELSE NoOut } :
             IF o = "frame" /\ Deliverable(r.result)
             THEN /\ lastRecv' = [kind |-> "frame", frame |-> buffer, called |-> TRUE,
                                  lost |-> lastRecv.lost]
                  /\ conn' = AfterFrame(conn)
                  /\ UNCHANGED <<sockfd, cli_encrypt_fn, cli_decrypt_fn, shaken, snd>>
             ELSE /\ lastRecv' = [kind |-> o, frame |-> buffer, called |-> FALSE,
                                  lost |-> lastRecv.lost \/ cli_is_running]
                  /\ conn' = IF ResetConnection(Ctx).closed # <<>> THEN NoConn ELSE conn
                  /\ sockfd' = ResetConnection(Ctx).sockfd
                  /\ cli_encrypt_fn' = ResetConnection(Ctx).encrypt_fn
                  /\ cli_decrypt_fn' = ResetConnection(Ctx).decrypt_fn
                  /\ snd' = AfterClose(ResetConnection(Ctx).closed)
                  /\ shaken' = FALSE
    /\ npc' = "check"
    /\ UNCHANGED <<listener, hello, serverUp, cli_is_running, sock, jpc, hsCode,
                   strategySet, lastSend>>
    /\ UNCHANGED SendRest

\* the end of the thread: free( recv_buf ), ResetConnection
Cleanup ==
    /\ npc = "cleanup"
    /\ conn' = IF ResetConnection(Ctx).closed # <<>> THEN NoConn ELSE conn
    /\ sockfd' = ResetConnection(Ctx).sockfd
    /\ cli_encrypt_fn' = ResetConnection(Ctx).encrypt_fn
    /\ cli_decrypt_fn' = ResetConnection(Ctx).decrypt_fn
    /\ snd' = AfterClose(ResetConnection(Ctx).closed)
    /\ shaken' = FALSE
    /\ npc' = "exited"
    /\ UNCHANGED <<listener, hello, serverUp, cli_is_running, sock, jpc, hsCode,
                   strategySet, lastRecv, lastSend>>
    /\ UNCHANGED SendRest

\* impl_Disconnect, its first statement
DisconnectBegin ==
    /\ jpc = "idle" /\ npc # "none"
    /\ cli_is_running' = FALSE
    /\ jpc' = "shutdown"
    /\ UNCHANGED <<listener, hello, serverUp, sockfd, cli_encrypt_fn, cli_decrypt_fn,
                   npc, sock, conn, shaken, hsCode, strategySet, lastRecv>>
    /\ UNCHANGED ClientRest

\* impl_Disconnect, under the mutex: shutdown of the socket sockfd names
DisconnectShutdown ==
    /\ jpc = "shutdown"
    /\ conn' = IF sockfd # NO_FD THEN [conn EXCEPT !.shut = TRUE] ELSE conn
    /\ jpc' = "joining"
    /\ UNCHANGED <<listener, hello, serverUp, cli_is_running, sockfd, cli_encrypt_fn,
                   cli_decrypt_fn, npc, sock, shaken, hsCode, strategySet, lastRecv>>
    /\ UNCHANGED ClientRest

\* impl_Disconnect, pthread_join returning
DisconnectJoin ==
    /\ jpc = "joining" /\ npc = "exited"
    /\ jpc' = "idle"
    /\ npc' = "none"
    /\ UNCHANGED <<listener, hello, serverUp, cli_is_running, sockfd, cli_encrypt_fn,
                   cli_decrypt_fn, sock, conn, shaken, hsCode, strategySet, lastRecv>>
    /\ UNCHANGED ClientRest

\* impl_SetStrategy called by the application
SetStrategy(enc, dec) ==
    /\ npc # "off"
    /\ <<enc, dec>> # <<cli_encrypt_fn, cli_decrypt_fn>>
    /\ cli_encrypt_fn' = enc
    /\ cli_decrypt_fn' = dec
    /\ strategySet' = TRUE
    /\ UNCHANGED <<listener, hello, serverUp, cli_is_running, sockfd, npc, sock, jpc,
                   conn, shaken, hsCode, lastRecv>>
    /\ UNCHANGED ClientRest

\* the server end: accept and AddClient
AcceptClient ==
    /\ serverUp /\ conn.open /\ ~conn.peerClosed /\ ~conn.accepted
    /\ conn' = [conn EXCEPT !.accepted = TRUE]
    /\ UNCHANGED <<listener, hello, serverUp, cli_is_running, sockfd, cli_encrypt_fn,
                   cli_decrypt_fn, npc, sock, jpc, shaken, hsCode, strategySet,
                   lastRecv>>
    /\ UNCHANGED ClientRest

\* the server end: send( client_fd, handshake_msg, strlen( handshake_msg ), 0 )
SendHandshake ==
    /\ serverUp /\ conn.open /\ ~conn.peerClosed /\ conn.accepted /\ ~conn.greeted
    /\ conn' = [conn EXCEPT !.greeted = TRUE,
                            !.wire = conn.wire \o hello,
                            !.first = IF conn.first = <<>> THEN hello ELSE conn.first]
    /\ UNCHANGED <<listener, hello, serverUp, cli_is_running, sockfd, cli_encrypt_fn,
                   cli_decrypt_fn, npc, sock, jpc, shaken, hsCode, strategySet,
                   lastRecv>>
    /\ UNCHANGED ClientRest

\* the server end: the sender thread writes a frame to a client of the roster
\* (another server writes its frames after its handshake)
SenderWrite(f) ==
    /\ serverUp /\ conn.open /\ ~conn.peerClosed
    /\ IF listener = "TcpServer" THEN conn.accepted /\ f \in ServerFrames
       ELSE conn.greeted
    /\ conn.wrote < MaxWrites
    /\ conn' = [conn EXCEPT !.wrote = conn.wrote + 1,
                            !.wire = conn.wire \o f,
                            !.first = IF conn.first = <<>> THEN f ELSE conn.first]
    /\ UNCHANGED <<listener, hello, serverUp, cli_is_running, sockfd, cli_encrypt_fn,
                   cli_decrypt_fn, npc, sock, jpc, shaken, hsCode, strategySet,
                   lastRecv>>
    /\ UNCHANGED ClientRest

\* the server process ends: its end of the connection closes
ServerDown ==
    /\ serverUp /\ npc # "off"
    /\ serverUp' = FALSE
    /\ conn' = IF conn.open THEN [conn EXCEPT !.peerClosed = TRUE] ELSE conn
    /\ UNCHANGED <<listener, hello, cli_is_running, sockfd, cli_encrypt_fn,
                   cli_decrypt_fn, npc, sock, jpc, shaken, hsCode, strategySet,
                   lastRecv>>
    /\ UNCHANGED ClientRest

\* the server is started again
ServerUp ==
    /\ ~serverUp /\ npc # "off"
    /\ serverUp' = TRUE
    /\ UNCHANGED <<listener, hello, cli_is_running, sockfd, cli_encrypt_fn,
                   cli_decrypt_fn, npc, sock, jpc, conn, shaken, hsCode, strategySet,
                   lastRecv>>
    /\ UNCHANGED ClientRest

\* a test that forgets is_running: a plausible slip
SendRefused_Mut(running, fd) == fd = NO_FD

\* the two early returns of impl_Send: not running, or no socket
SendRefused(running, fd) == ~running \/ fd = NO_FD

\* body lengths handed to Send: one byte, and one more than fits the buffer
SendLens == {1, DEFAULT_BUF_SIZE - HEADER_SIZE - CHECKSUM_LEN + 1}

\* impl_Send up to the unlock: the test of is_running and the read of sockfd
\* under conn_mutex; the call returns -1 here when it is refused
SendBegin(len) ==
    /\ snd.pc = "idle"
    /\ IF SendRefused(cli_is_running, sockfd)
       THEN /\ lastSend' = [NoSend EXCEPT !.called = TRUE,
                                          !.running = cli_is_running,
                                          !.fd = sockfd,
                                          !.body_len = len,
                                          !.ret = -1]
            /\ snd' = snd
       ELSE /\ snd' = [pc |-> "write", running |-> cli_is_running, fd |-> sockfd,
                       body_len |-> len, stale |-> FALSE]
            /\ lastSend' = NoSend
    /\ UNCHANGED <<listener, hello, serverUp, cli_is_running, sockfd, cli_encrypt_fn,
                   cli_decrypt_fn, npc, sock, jpc, conn, shaken, hsCode, strategySet,
                   lastRecv>>
    /\ UNCHANGED SendRest

\* send_buf, as far as a frame of n bytes touches it: nothing of it when the
\* frame does not fit
SendBuf(n) == Fresh(IF n > DEFAULT_BUF_SIZE THEN 0 ELSE n, 0)

\* impl_Send after the unlock: Packet_Serialize with the encrypt function of
\* the moment, then one send() on the descriptor read before.  The send fails
\* when the descriptor names no open socket.
SendWrite ==
    /\ snd.pc = "write"
    /\ \E r \in { Packet_Serialize(
                     SendBuf(HEADER_SIZE + snd.body_len + CHECKSUM_LEN),
                     DEFAULT_BUF_SIZE, <<67, 72, 65, 84>>, Fresh(snd.body_len, 7),
                     snd.body_len, cli_encrypt_fn) } :
         lastSend' = [called |-> TRUE, running |-> snd.running, fd |-> snd.fd,
                      body_len |-> snd.body_len, enc |-> cli_encrypt_fn,
                      ret |-> IF r.ret > 0 /\ conn.open THEN r.ret ELSE -1,
                      writes |-> IF r.ret > 0 THEN 1 ELSE 0,
                      bytes |-> IF r.ret > 0 THEN r.out_buffer ELSE <<>>,
                      stale |-> snd.stale, open |-> conn.open]
    /\ snd' = NoSnd
    /\ UNCHANGED <<listener, hello, serverUp, cli_is_running, sockfd, cli_encrypt_fn,
                   cli_decrypt_fn, npc, sock, jpc, conn, shaken, hsCode, strategySet,
                   lastRecv>>
    /\ UNCHANGED SendRest

\* the steps of the network thread
NetworkManagerThread ==
    LoopCheck \/ TryConnect \/ Handshake \/ Sleep \/ Receive \/ Cleanup

ClientNext ==
    \/ Connect
    \/ NetworkManagerThread
    \/ DisconnectBegin
    \/ DisconnectShutdown
    \/ DisconnectJoin
    \/ \E p \in StrategyPairs : SetStrategy(p[1], p[2])
    \/ AcceptClient
    \/ SendHandshake
    \/ \E f \in OtherFrames : SenderWrite(f)
    \/ ServerDown
    \/ ServerUp

-----------------------------------------------------------------------------
(* TcpServer.c: the roster, the cipher pair and the traffic of the         *)
(* pipeline.  The roster is the list of fds from client_list_head on.  A   *)
(* critical section of the thread that runs the loop of Run is one step;   *)
(* the broadcast loop of the sender is one step per write and holds the    *)
(* roster mutex from its first step to its last.  A thread that would      *)
(* block in SafeQueue_Dequeue takes its step when the queue has an item.   *)

\* bounds of the traffic model
MaxCalls == 3
MaxFrames == 2
MaxAccepts == 2
MaxRosterCalls == 2

NoBcast == [task |-> NIL, curr |-> <<>>, roster |-> <<>>]

NoSet == [pc |-> "idle", enc |-> "NULL", dec |-> "NULL", old |-> <<"NULL", "NULL">>]

\* the I/O thread is in neither critical section of the roster
IoIdle == [pc |-> "idle", fd |-> NIL, found |-> FALSE]

\* CreateTcpServerContext: empty roster, the default cipher pair
PipeInit ==
    /\ client_list = <<>>
    /\ client_list_mutex = "free"
    /\ encrypt_fn = "Packet_DefaultXor"
    /\ decrypt_fn = "Packet_DefaultXor"
    /\ setpc = NoSet
    /\ bcast = NoBcast
    /\ held = [w \in Workers |-> NIL]
    /\ wire = [fd \in PipeFds |-> <<>>]
    /\ wroteLog = [fd \in PipeFds |-> <<>>]
    /\ callLog = <<>>
    /\ writeLog = <<>>
    /\ recvLog = <<>>
    /\ cbLog = <<>>
    /\ current_client_count = 0
    /\ fdtab = [fd \in PipeFds |-> NIL]
    /\ io = IoIdle
    /\ lastAccept = [n |-> 0, fd |-> NIL, failed |-> FALSE, linked |-> FALSE]

\* the loop of RemoveClient: the first node with this fd is unlinked
RECURSIVE Unlink(_, _)
Unlink(list, fd) ==
    IF list = <<>> THEN <<>>
    ELSE IF Head(list) = fd THEN Tail(list)
    ELSE <<Head(list)>> \o Unlink(Tail(list), fd)

\* a RemoveClient that counts down whether or not it found the fd: a
\* plausible slip
CountAfterRemove_Mut(count, found) == count - 1

\* ctx->current_client_count-- of RemoveClient sits inside if( curr->fd == fd )
CountAfterRemove(count, found) == IF found THEN count - 1 ELSE count

\* impl_GetClientCount: the cached count, read without the mutex
impl_GetClientCount == current_client_count

\* accept returned fd: AddClient( ctx, fd ) links a new node at the head, or
\* returns at once when its malloc fails
AddClient(fd, node_ok) ==
    /\ iopc = "loop"
    /\ fd \notin Fds(client_list)
    /\ pthread_mutex_lock(client_list_mutex)
    /\ client_list' = IF node_ok THEN <<fd>> \o client_list ELSE client_list
    /\ current_client_count' = IF node_ok THEN current_client_count + 1
                               ELSE current_client_count
    /\ UNCHANGED <<client_list_mutex, encrypt_fn, decrypt_fn, setpc, bcast, held, wire,
                   wroteLog, callLog, writeLog, recvLog, cbLog,
                   fdtab, io, lastAccept>>
    /\ UNCHANGED <<codecVars, queueVars, serverVars, clientVars>>

\* recv returned len <= 0 on fd: close( fd ), RemoveClient( ctx, fd )
RemoveClient(fd) ==
    /\ iopc = "loop"
    /\ fd \in Fds(client_list)
    /\ pthread_mutex_lock(client_list_mutex)
    /\ client_list' = Unlink(client_list, fd)
    /\ current_client_count' = CountAfterRemove(current_client_count, TRUE)
    /\ UNCHANGED <<client_list_mutex, encrypt_fn, decrypt_fn, setpc, bcast, held, wire,
                   wroteLog, callLog, writeLog, recvLog, cbLog,
                   fdtab, io, lastAccept>>
    /\ UNCHANGED <<codecVars, queueVars, serverVars, clientVars>>

\* a call of impl_Server_Send (or impl_Server_Broadcast) by any thread, with
\* the outcomes of its allocations; the call is recorded with what it saw and
\* what it left
PipeSend(fd, is_broadcast, task_ok, body_ok, node_ok) ==
    /\ Len(callLog) < MaxCalls
    /\ \E r \in { impl_Server_Send(is_running, send_queue, tasks,
                                   SendTask(Len(callLog) + 1), fd, is_broadcast,
                                   task_ok, body_ok, node_ok) } :
          /\ send_queue' = r.queue
          /\ tasks' = r.tasks
          /\ callLog' = Append(callLog,
                 [task |-> SendTask(Len(callLog) + 1), running |-> is_running,
                  is_broadcast |-> is_broadcast, before |-> send_queue, after |-> r.queue,
                  conn |-> IF is_broadcast THEN NIL ELSE fdtab[fd],
                  alloc_failed |-> is_running /\ (~task_ok \/ ~body_ok
                                      \/ (HasRoom(send_queue) /\ ~node_ok)),
                  result |-> r.result])
    /\ UNCHANGED <<is_running, worker_count, recv_queue, iopc, wpc, spc, dpc, di, nRecv,
                   nSend, allocFailed>>
    /\ UNCHANGED <<client_list, client_list_mutex, encrypt_fn, decrypt_fn, setpc, bcast,
                   held, wire, wroteLog, writeLog, recvLog, cbLog,
                   current_client_count, fdtab, io, lastAccept>>
    /\ UNCHANGED <<codecVars, queueVars, clientVars>>

\* send( fd, send_buf, packet_len, MSG_NOSIGNAL ) of the sender thread
SocketWrite(task, fd) == [task |-> task, fd |-> fd]

\* One round of the loop of SenderThreadFunc, from the return of
\* SafeQueue_Dequeue on: the poison pill ends the thread; a unicast task is
\* serialized, written and released; for a broadcast the sender takes the
\* roster mutex and starts at client_list_head.
SenderTask ==
    /\ spc = "dequeue"
    /\ send_queue.count > 0
    /\ \E r \in { TakeHead(send_queue) } :
          /\ tasks[r.data].is_broadcast => pthread_mutex_lock(client_list_mutex)
          /\ send_queue' = r.queue
          /\ IF tasks[r.data].client_fd = POISON_SEND
             THEN /\ spc' = "exited"
                  /\ tasks' = FreeTask(tasks, r.data)
                  /\ UNCHANGED <<client_list_mutex, bcast, writeLog>>
             ELSE IF tasks[r.data].is_broadcast
             THEN /\ spc' = "broadcast"
                  /\ client_list_mutex' = "sender"
                  /\ bcast' = [task |-> r.data, curr |-> client_list,
                               roster |-> client_list]
                  /\ UNCHANGED <<tasks, writeLog>>
             ELSE /\ spc' = "loop"
                  /\ writeLog' = Append(writeLog,
                                        SocketWrite(r.data, tasks[r.data].client_fd))
                  /\ tasks' = FreeTask(tasks, r.data)
                  /\ UNCHANGED <<client_list_mutex, bcast>>
    /\ UNCHANGED <<is_running, worker_count, recv_queue, iopc, wpc, dpc, di, nRecv,
                   nSend, allocFailed>>
    /\ UNCHANGED <<client_list, encrypt_fn, decrypt_fn, setpc, held, wire, wroteLog,
                   callLog, recvLog, cbLog,
                   current_client_count, fdtab, io, lastAccept>>
    /\ UNCHANGED <<codecVars, queueVars, clientVars>>

\* while( curr ) of the broadcast: one write to curr->fd, curr = curr->next;
\* after the last node the mutex is released and the task freed
BroadcastStep ==
    /\ spc = "broadcast"
    /\ IF bcast.curr # <<>>
       THEN /\ writeLog' = Append(writeLog, SocketWrite(bcast.task, Head(bcast.curr)))
            /\ bcast' = [bcast EXCEPT !.curr = Tail(bcast.curr)]
            /\ UNCHANGED <<client_list_mutex, spc, tasks>>
       ELSE /\ client_list_mutex' = "free"
            /\ tasks' = FreeTask(tasks, bcast.task)
            /\ spc' = "loop"
            /\ UNCHANGED <<bcast, writeLog>>
    /\ UNCHANGED <<is_running, worker_count, recv_queue, send_queue, iopc, wpc, dpc, di,
                   nRecv, nSend, allocFailed>>
    /\ UNCHANGED <<client_list, encrypt_fn, decrypt_fn, setpc, held, wire, wroteLog,
                   callLog, recvLog, cbLog,
                   current_client_count, fdtab, io, lastAccept>>
    /\ UNCHANGED <<codecVars, queueVars, clientVars>>

\* impl_Server_SetStrategy, first assignment: ctx->encrypt_fn = enc
SetStrategyEncrypt(enc, dec) ==
    /\ setpc.pc = "idle"
    /\ <<enc, dec>> # <<encrypt_fn, decrypt_fn>>
    /\ encrypt_fn' = enc
    /\ setpc' = [pc |-> "decrypt", enc |-> enc, dec |-> dec,
                 old |-> <<encrypt_fn, decrypt_fn>>]
    /\ UNCHANGED <<client_list, client_list_mutex, decrypt_fn, bcast, held, wire,
                   wroteLog, callLog, writeLog, recvLog, cbLog,
                   current_client_count, fdtab, io, lastAccept>>
    /\ UNCHANGED <<codecVars, queueVars, serverVars, clientVars>>

\* impl_Server_SetStrategy, second assignment: ctx->decrypt_fn = dec
SetStrategyDecrypt ==
    /\ setpc.pc = "decrypt"
    /\ decrypt_fn' = setpc.dec
    /\ setpc' = NoSet
    /\ UNCHANGED <<client_list, client_list_mutex, encrypt_fn, bcast, held, wire,
                   wroteLog, callLog, writeLog, recvLog, cbLog,
                   current_client_count, fdtab, io, lastAccept>>
    /\ UNCHANGED <<codecVars, queueVars, serverVars, clientVars>>

\* [Case A] of the loop of Run: accept returns the descriptor fd for a new
\* connection, then SetNonBlocking, epoll_ctl( EPOLL_CTL_ADD ), AddClient and
\* the send of the handshake, each with its outcome.  No outcome is looked at:
\* the descriptor stays open, and the node is linked unless its malloc
\* failed (AddClient then returns before it takes the mutex).
AcceptPath(fd, nonblock_ok, ctl_ok, node_ok, send_ok) ==
    /\ iopc = "loop" /\ io.pc = "idle"
    /\ lastAccept.n < MaxAccepts
    /\ fdtab[fd] = NIL
    /\ node_ok => pthread_mutex_lock(client_list_mutex)
    /\ fdtab' = [fdtab EXCEPT ![fd] = lastAccept.n + 1]
    /\ lastAccept' = [n |-> lastAccept.n + 1, fd |-> fd,
                      failed |-> ~(nonblock_ok /\ ctl_ok /\ node_ok /\ send_ok),
                      linked |-> node_ok]
    /\ IF node_ok
       THEN /\ client_list' = <<fd>> \o client_list
            /\ client_list_mutex' = "io"
            /\ io' = [pc |-> "added", fd |-> fd, found |-> TRUE]
       ELSE UNCHANGED <<client_list, client_list_mutex, io>>
    /\ UNCHANGED <<encrypt_fn, decrypt_fn, setpc, bcast, held, wire, wroteLog, callLog,
                   writeLog, recvLog, cbLog, current_client_count>>
    /\ UNCHANGED <<codecVars, queueVars, serverVars, clientVars>>

\* the rest of the critical section of AddClient: the count, the unlock
AddClientCount ==
    /\ io.pc = "added"
    /\ current_client_count' = current_client_count + 1
    /\ client_list_mutex' = "free"
    /\ io' = IoIdle
    /\ UNCHANGED <<client_list, encrypt_fn, decrypt_fn, setpc, bcast, held, wire, wroteLog,
                   callLog, writeLog, recvLog, cbLog, fdtab, lastAccept>>
    /\ UNCHANGED <<codecVars, queueVars, serverVars, clientVars>>

\* [Case B] of the loop of Run, recv returned len <= 0 (the peer closed, or a
\* read error): close( curr_fd ) comes first
ReadClose(fd) ==
    /\ iopc = "loop" /\ io.pc = "idle"
    /\ fdtab[fd] # NIL
    /\ fdtab' = [fdtab EXCEPT ![fd] = NIL]
    /\ io' = [pc |-> "closed", fd |-> fd, found |-> FALSE]
    /\ UNCHANGED <<client_list, client_list_mutex, encrypt_fn, decrypt_fn, setpc, bcast,
                   held, wire, wroteLog, callLog, writeLog, recvLog, cbLog,
                   current_client_count, lastAccept>>
    /\ UNCHANGED <<codecVars, queueVars, serverVars, clientVars>>

\* then RemoveClient( ctx, curr_fd ): under the mutex the first node with
\* this fd, if there is one, is unlinked
RemoveClientUnlink ==
    /\ io.pc = "closed"
    /\ pthread_mutex_lock(client_list_mutex)
    /\ client_list' = Unlink(client_list, io.fd)
    /\ client_list_mutex' = "io"
    /\ io' = [pc |-> "unlinked", fd |-> io.fd, found |-> io.fd \in Fds(client_list)]
    /\ UNCHANGED <<encrypt_fn, decrypt_fn, setpc, bcast, held, wire, wroteLog, callLog,
                   writeLog, recvLog, cbLog, current_client_count, fdtab, lastAccept>>
    /\ UNCHANGED <<codecVars, queueVars, serverVars, clientVars>>

\* the rest of the critical section of RemoveClient: the count, the unlock
RemoveClientCount ==
    /\ io.pc = "unlinked"
    /\ current_client_count' = CountAfterRemove(current_client_count, io.found)
    /\ client_list_mutex' = "free"
    /\ io' = IoIdle
    /\ UNCHANGED <<client_list, encrypt_fn, decrypt_fn, setpc, bcast, held, wire, wroteLog,
                   callLog, writeLog, recvLog, cbLog, fdtab, lastAccept>>
    /\ UNCHANGED <<codecVars, queueVars, serverVars, clientVars>>

\* a client writes its next frame on its connection: an application frame
\* whose body is the number of the frame, under the default cipher
ClientFrame(n) == Frame(<<67, 72, 65, 84>>, <<n>>, "Packet_DefaultXor")

\* the number of frames the clients have written
FramesWritten == Len(wroteLog[5]) + Len(wroteLog[6])

\* the segments in which the bytes of a frame travel: the frame whole, or
\* its first half and its second half
Segments(frame, split) ==
    IF split
    THEN <<SubSeq(frame, 1, Len(frame) \div 2),
           SubSeq(frame, Len(frame) \div 2 + 1, Len(frame))>>
    ELSE <<frame>>

ClientWrite(fd, split) ==
    /\ iopc = "loop"
    /\ FramesWritten < MaxFrames
    /\ wire' = [wire EXCEPT
                  ![fd] = wire[fd] \o Segments(ClientFrame(Len(wroteLog[fd]) + 1), split)]
    /\ wroteLog' = [wroteLog EXCEPT
                      ![fd] = Append(wroteLog[fd], ClientFrame(Len(wroteLog[fd]) + 1))]
    /\ UNCHANGED <<client_list, client_list_mutex, encrypt_fn, decrypt_fn, setpc, bcast,
                   held, callLog, writeLog, recvLog, cbLog,
                   current_client_count, fdtab, io, lastAccept>>
    /\ UNCHANGED <<codecVars, queueVars, serverVars, clientVars>>

RECURSIVE Concat(_)
Concat(chunks) == IF chunks = <<>> THEN <<>> ELSE Head(chunks) \o Concat(Tail(chunks))

\* what recv( curr_fd, temp_buf, DEFAULT_BUF_SIZE, 0 ) can return when it
\* returns len > 0: the segments that have arrived, the first one or more of
\* those under way, and at most DEFAULT_BUF_SIZE bytes
Arrived(segments) ==
    { n \in 1..Len(segments) : Len(Concat(SubSeq(segments, 1, n))) <= DEFAULT_BUF_SIZE }

\* the read path of the loop of Run: one recv per event, the bytes of that
\* recv are one task; the task is dropped when a malloc fails or the recv
\* queue refuses it
PipeRead(fd, n, task_ok, node_ok) ==
    /\ iopc = "loop"
    /\ n \in Arrived(wire[fd])
    /\ nRecv < MaxReads
    /\ wire' = [wire EXCEPT ![fd] = SubSeq(wire[fd], n + 1, Len(wire[fd]))]
    /\ \E r \in { SafeQueue_Enqueue(recv_queue, NewTask(ReadTask(nRecv + 1), task_ok),
                                    node_ok) } :
          /\ recv_queue' = r.queue
          /\ tasks' = IF r.result
                      THEN WithTask(tasks, ReadTask(nRecv + 1),
                               [kind |-> "recv", client_fd |-> fd,
                                data |-> Concat(SubSeq(wire[fd], 1, n)),
                                len |-> Len(Concat(SubSeq(wire[fd], 1, n)))])
                      ELSE tasks
          /\ nRecv' = IF r.result THEN nRecv + 1 ELSE nRecv
          /\ recvLog' = IF r.result
                        THEN Append(recvLog, [task |-> ReadTask(nRecv + 1),
                                              client_fd |-> fd,
                                              data |-> Concat(SubSeq(wire[fd], 1, n))])
                        ELSE recvLog
    /\ UNCHANGED <<is_running, worker_count, send_queue, iopc, wpc, spc, dpc, di, nSend,
                   allocFailed>>
    /\ UNCHANGED <<client_list, client_list_mutex, encrypt_fn, decrypt_fn, setpc, bcast,
                   held, wroteLog, callLog, writeLog, cbLog,
                   current_client_count, fdtab, io, lastAccept>>
    /\ UNCHANGED <<codecVars, queueVars, clientVars>>

\* SafeQueue_Dequeue of WorkerThreadFunc returns a task: the poison pill ends
\* the thread, any other task is parsed next
WorkerTask(w) ==
    /\ wpc[w] = "dequeue"
    /\ recv_queue.count > 0
    /\ \E r \in { TakeHead(recv_queue) } :
          /\ recv_queue' = r.queue
          /\ IF tasks[r.data].client_fd = POISON_RECV
             THEN /\ wpc' = [wpc EXCEPT ![w] = "exited"]
                  /\ tasks' = FreeTask(tasks, r.data)
                  /\ UNCHANGED held
             ELSE /\ wpc' = [wpc EXCEPT ![w] = "parse"]
                  /\ held' = [held EXCEPT ![w] = r.data]
                  /\ UNCHANGED tasks
    /\ UNCHANGED <<is_running, worker_count, send_queue, iopc, spc, dpc, di, nRecv, nSend,
                   allocFailed>>
    /\ UNCHANGED <<client_list, client_list_mutex, encrypt_fn, decrypt_fn, setpc, bcast,
                   wire, wroteLog, callLog, writeLog, recvLog, cbLog,
                   current_client_count, fdtab, io, lastAccept>>
    /\ UNCHANGED <<codecVars, queueVars, clientVars>>

\* a worker that calls on_message whatever Packet_Parse returned: a plausible
\* slip
Dispatch_Mut(log, result, call) == Append(log, call)

\* if( result == PKT_SUCCESS ) of WorkerThreadFunc: on_message is called on
\* Success only; the other branch is empty
Dispatch(log, result, call) == IF result = PKT_SUCCESS THEN Append(log, call) ELSE log

\* the rest of the round of WorkerThreadFunc: Packet_Parse on the whole
\* buffer of the task, on_message when it returns Success, FreeRecvTask, and
\* the test of while( ctx->is_running ) for the next round
WorkerParse(w) ==
    /\ wpc[w] = "parse"
    /\ \E fill \in FillBytes :
       \E r \in { Packet_Parse(tasks[held[w]].data, tasks[held[w]].len, decrypt_fn,
                               Fresh(TARGET_NAME_LEN + 1, fill), <<0>>, <<0>>) } :
          cbLog' = Dispatch(cbLog, r.result,
                            [task |-> held[w], client_fd |-> tasks[held[w]].client_fd,
                             target |-> CStr(r.out_target, TARGET_NAME_LEN + 1),
                             body |-> SubSeq(r.in_buffer, r.out_body_ptr[1] + 1,
                                             r.out_body_ptr[1] + r.out_body_len[1])])
    /\ tasks' = FreeTask(tasks, held[w])
    /\ held' = [held EXCEPT ![w] = NIL]
    /\ wpc' = [wpc EXCEPT ![w] = IF is_running THEN "dequeue" ELSE "exited"]
    /\ UNCHANGED <<is_running, worker_count, recv_queue, send_queue, iopc, spc, dpc, di,
                   nRecv, nSend, allocFailed>>
    /\ UNCHANGED <<client_list, client_list_mutex, encrypt_fn, decrypt_fn, setpc, bcast,
                   wire, wroteLog, callLog, writeLog, recvLog,
                   current_client_count, fdtab, io, lastAccept>>
    /\ UNCHANGED <<codecVars, queueVars, clientVars>>

\* the inbound half of the pipeline: clients that write, the read path, the
\* workers
InboundNext ==
    \/ RunStart
    \/ \E w \in Workers : WorkerLoop(w)
    \/ \E fd \in PipeFds, split \in BOOLEAN : ClientWrite(fd, split)
    \/ \E fd \in PipeFds, n \in 1..(2 * MaxFrames), task_ok, node_ok \in BOOLEAN :
          PipeRead(fd, n, task_ok, node_ok)
    \/ \E w \in Workers : WorkerTask(w)
    \/ \E w \in Workers : WorkerParse(w)

\* the outbound half of the pipeline: callers of Send and Broadcast, the
\* sender thread and the clients that connect
OutboundNext ==
    \/ RunStart
    \/ SenderLoop
    \/ \E fd \in PipeFds, node_ok \in BOOLEAN : AddClient(fd, node_ok)
    \/ \E is_broadcast \in BOOLEAN :
       \E ok \in {<<TRUE, TRUE, TRUE>>, <<FALSE, TRUE, TRUE>>, <<TRUE, FALSE, TRUE>>,
                  <<TRUE, TRUE, FALSE>>} :
          PipeSend(5, is_broadcast, ok[1], ok[2], ok[3])
    \/ SenderTask
    \/ BroadcastStep

\* the roster, the broadcasts and the cipher pair: clients come and go and
\* the application sets the strategy while it broadcasts
BroadcastNext ==
    \/ RunStart
    \/ SenderLoop
    \/ \E fd \in PipeFds, node_ok \in BOOLEAN : AddClient(fd, node_ok)
    \/ \E fd \in PipeFds : RemoveClient(fd)
    \/ PipeSend(5, TRUE, TRUE, TRUE, TRUE)
    \/ SenderTask
    \/ BroadcastStep
    \/ \E pair \in StrategyPairs : SetStrategyEncrypt(pair[1], pair[2])
    \/ SetStrategyDecrypt

\* the callback or another thread of the application calls Send for the
\* client on descriptor 5, or Broadcast, while the loop of Run is running
RosterSend(is_broadcast) ==
    /\ iopc = "loop"
    /\ Len(callLog) < MaxRosterCalls
    /\ PipeSend(5, is_broadcast, TRUE, TRUE, TRUE)

\* the roster and the descriptors: clients connect and disconnect while the
\* application broadcasts
RosterNext ==
    \/ RunStart
    \/ SenderLoop
    \/ \E fd \in PipeFds, nonblock_ok, ctl_ok, node_ok, send_ok \in BOOLEAN :
          AcceptPath(fd, nonblock_ok, ctl_ok, node_ok, send_ok)
    \/ AddClientCount
    \/ \E fd \in PipeFds : ReadClose(fd)
    \/ RemoveClientUnlink
    \/ RemoveClientCount
    \/ RosterSend(TRUE)
    \/ SenderTask
    \/ BroadcastStep

\* a connected client writes its next frame
SessionWrite(fd, split) ==
    /\ fdtab[fd] # NIL
    /\ ClientWrite(fd, split)

\* epoll reports the descriptor of a connected client readable
SessionRead(fd, n, task_ok, node_ok) ==
    /\ fdtab[fd] # NIL /\ io.pc = "idle"
    /\ PipeRead(fd, n, task_ok, node_ok)

\* the sessions of the clients: they connect, they write, the read path and
\* the workers handle what arrives
SessionNext ==
    \/ RunStart
    \/ \E w \in Workers : WorkerLoop(w)
    \/ \E fd \in PipeFds, nonblock_ok, ctl_ok, node_ok, send_ok \in BOOLEAN :
          AcceptPath(fd, nonblock_ok, ctl_ok, node_ok, send_ok)
    \/ AddClientCount
    \/ \E fd \in PipeFds, split \in BOOLEAN : SessionWrite(fd, split)
    \/ \E fd \in PipeFds, n \in 1..(2 * MaxFrames), task_ok, node_ok \in BOOLEAN :
          SessionRead(fd, n, task_ok, node_ok)
    \/ \E w \in Workers : WorkerTask(w)
    \/ \E w \in Workers : WorkerParse(w)

\* the descriptors and the unicast sends: clients connect and disconnect
\* while the application sends to the client on descriptor 5
UnicastNext ==
    \/ RunStart
    \/ SenderLoop
    \/ \E fd \in PipeFds, nonblock_ok, ctl_ok, node_ok, send_ok \in BOOLEAN :
          AcceptPath(fd, nonblock_ok, ctl_ok, node_ok, send_ok)
    \/ AddClientCount
    \/ \E fd \in PipeFds : ReadClose(fd)
    \/ RemoveClientUnlink
    \/ RemoveClientCount
    \/ RosterSend(FALSE)
    \/ SenderTask

-----------------------------------------------------------------------------
(* Specifications                                                          *)

\* the codec alone: no queue, no server
InitCodec == CodecInit /\ QueueIdle /\ ServerIdle /\ ClientIdle /\ PipeInit

SpecCodec == InitCodec /\ [][CodecNext]_vars

\* one queue alone
InitQueue == QueueInit /\ CodecIdle /\ ServerIdle /\ ClientIdle /\ PipeInit

SpecQueue == InitQueue /\ [][QueueNext]_vars

\* a thread that can run does run: a consumer that was woken takes the mutex
\* and goes on.  Nothing obliges callers to call, nor wake-ups to be spurious.
FairSpecQueue == SpecQueue /\ \A c \in Consumers : WF_vars(DequeueWake(c))

\* the server with its two queues
InitShutdown == ServerInit /\ CodecIdle /\ QueueIdle /\ ClientIdle /\ PipeInit

SpecShutdown == InitShutdown /\ [][ServerNext]_vars

\* every thread that can run does run: the steps of the workers, of the sender
\* and of Destroy are taken when they stay possible.  Nothing obliges clients
\* to send, the application to call Send, or a wake-up to be spurious.
FairSpecShutdown ==
    /\ SpecShutdown
    /\ \A w \in Workers :
          /\ WF_vars(WorkerLoop(w))
          /\ WF_vars(WorkerDequeue(w))
    /\ WF_vars(SenderLoop) /\ WF_vars(SenderDequeue)
    /\ WF_vars(\E task_ok, node_ok \in BOOLEAN : DestroyPoison(task_ok, node_ok))
    /\ WF_vars(\E task_ok, node_ok \in BOOLEAN : DestroyPoisonSend(task_ok, node_ok))
    /\ WF_vars(DestroyJoinWorker) /\ WF_vars(DestroyJoinSender)
    /\ WF_vars(DestroyRelease)

\* a server that is created and destroyed, and never run
SpecUnstarted == InitShutdown /\ [][UnstartedNext]_vars

\* one client session and the server at its address
InitClient == ClientInit /\ CodecIdle /\ QueueIdle /\ ServerIdle /\ PipeInit

SpecClient == InitClient /\ [][ClientNext]_vars

\* the outbound traffic of the server
InitPipeline == ServerInit /\ PipeInit /\ CodecIdle /\ QueueIdle /\ ClientIdle

\* the workers take no part in the outbound traffic
InitOutbound == InitPipeline /\ worker_count = 1

SpecOutbound == InitOutbound /\ [][OutboundNext]_vars

SpecBroadcast == InitOutbound /\ [][BroadcastNext]_vars

\* the roster of the server: accepts, disconnects and broadcasts
SpecRoster == InitOutbound /\ [][RosterNext]_vars

\* the descriptors of the server: accepts, disconnects and unicast sends
SpecUnicast == InitOutbound /\ [][UnicastNext]_vars

\* the inbound traffic of the server, with one worker or more and the recv
\* queue at its largest
InitInbound == InitPipeline /\ recv_queue.capacity = MaxCapacity

SpecInbound == InitInbound /\ [][InboundNext]_vars

\* the sessions of the clients of the server, from accept to callback
SpecSession == InitInbound /\ [][SessionNext]_vars

\* the session with an application thread that calls Send
SendNext ==
    \/ Connect
    \/ NetworkManagerThread
    \/ DisconnectBegin
    \/ DisconnectShutdown
    \/ DisconnectJoin
    \/ AcceptClient
    \/ SendHandshake
    \/ \E f \in OtherFrames : SenderWrite(f)
    \/ \E len \in SendLens : SendBegin(len)
    \/ SendWrite

SpecSend == InitClient /\ [][SendNext]_vars

\* every thread that can run does run: the steps of the network thread and the
\* return of the join are taken when they stay possible, and a server that is
\* up accepts a pending connection and greets it.  Nothing obliges the
\* application to call, the sender thread to write, or the server to stop.
FairSpecClient ==
    /\ SpecClient
    /\ WF_vars(NetworkManagerThread)
    /\ WF_vars(DisconnectShutdown \/ DisconnectJoin)
    /\ WF_vars(AcceptClient \/ SendHandshake)


-----------------------------------------------------------------------------
(* Claims about the wire codec (checked under SpecCodec)                   *)

\* the 8-byte target field a target string stands for
TargetField(t) == strncpy(t, TARGET_NAME_LEN)

\* the body Packet_Parse handed back: out_body_len bytes at out_body_ptr
ParsedBody == SubSeq(cOut.in_buffer, cOut.out_body_ptr[1] + 1,
                     cOut.out_body_ptr[1] + cOut.out_body_len[1])

\* C8 -- Round trip: a body that fits (|B| <= max_buf_size - 13) is accepted by
\* Packet_Serialize, and parsing the untouched frame with the inverse cipher
\* returns Success, the target T (all 8 bytes of the target field) and the
\* body B, for every target of up to 8 bytes.
C8_RoundTrip ==
    /\ (cPhase = "rejected" => Len(cBody) > cMax - HEADER_SIZE - CHECKSUM_LEN)
    /\ (cPhase = "parsed" /\ cMut.kind = "none" /\ cEnc = cDec
            /\ Len(cTarget) <= TARGET_NAME_LEN)
         => /\ cOut.result = PKT_SUCCESS
            /\ SubSeq(cOut.out_target, 1, TARGET_NAME_LEN) = TargetField(cTarget)
            /\ ParsedBody = cBody

\* C9 -- Checksum sensitivity: a frame of Packet_Serialize with one bit flipped,
\* parsed with the same in_len, gives ChecksumFail or LengthMismatch, never
\* Success; a flip in the body region gives ChecksumFail.
C9_BitFlipDetected ==
    (cPhase = "parsed" /\ cMut.kind = "flip")
      => /\ cOut.result \in {PKT_ERR_CHECKSUM_FAIL, PKT_ERR_LENGTH_MISMATCH}
         /\ (cMut.byte >= HEADER_SIZE /\ cMut.byte < cRet - CHECKSUM_LEN
               => cOut.result = PKT_ERR_CHECKSUM_FAIL)

\* a bit of the byte at offset header_size + 1 was flipped and Parse refused it
C9_Witness ==
    /\ cPhase = "parsed" /\ cMut.kind = "flip"
    /\ cMut.byte = HEADER_SIZE + 1
    /\ cOut.result = PKT_ERR_CHECKSUM_FAIL

\* the length field of the buffer handed to Packet_Parse
StoredTotalLen == ntohl(SubSeq(cPre, 1, 4))

\* C10 (as claimed) -- Length exactness: Packet_Parse returns LengthMismatch
\* whenever in_len differs from the big-endian total_len of the first four
\* bytes, for every in_len.
C10_LengthExactAnyLen ==
    (cPhase = "parsed" /\ cInLen # StoredTotalLen)
      => cOut.result = PKT_ERR_LENGTH_MISMATCH

\* C10 (amended) -- for every in_len of at least header_size + checksum_size
\* Packet_Parse returns LengthMismatch whenever in_len differs from the stored
\* total_len; for a shorter in_len it returns TooShort whatever is stored.
C10_LengthExact ==
    cPhase = "parsed"
      => /\ (cInLen >= HEADER_SIZE + CHECKSUM_LEN /\ cInLen # StoredTotalLen
               => cOut.result = PKT_ERR_LENGTH_MISMATCH)
         /\ (cInLen < HEADER_SIZE + CHECKSUM_LEN
               => cOut.result = PKT_ERR_TOO_SHORT)

\* a buffer longer than the frame it holds was parsed and refused
C10_Witness ==
    /\ cPhase = "parsed" /\ cMut.kind = "inlen"
    /\ cInLen > StoredTotalLen
    /\ StoredTotalLen >= HEADER_SIZE + CHECKSUM_LEN
    /\ cOut.result = PKT_ERR_LENGTH_MISMATCH

\* C11 -- Packet_Parse returns NullPtr when a required argument is missing, and
\* one of TooShort, LengthMismatch, ChecksumFail, Success otherwise.  For the
\* missing argument it is stated for a missing output argument, on the frame
\* of Packet_Serialize handed over untouched with its own length, where no
\* other error can take precedence and no null pointer is read through.
C11_NullPtrOnMissingArg ==
    /\ (cPhase = "parsedMissing" /\ cPre # NULL)
          => cOut.result = PKT_ERR_NULL_PTR
    /\ cPhase = "parsed"
          => cOut.result \in {PKT_ERR_TOO_SHORT, PKT_ERR_LENGTH_MISMATCH,
                              PKT_ERR_CHECKSUM_FAIL, PKT_SUCCESS}

\* C12 -- Frame layout: after a successful Packet_Serialize with a body of n
\* bytes, bytes 0..3 hold 12 + n + 1 in big-endian, bytes 4..11 hold the
\* target zero-padded to 8 bytes, bytes 12..12+n-1 hold the body transformed
\* by the cipher (the body itself without a cipher), and byte 12+n is the sum
\* of all preceding bytes mod 256; the cipher touches neither header nor
\* checksum, and the call returns 12 + n + 1.
C12_FrameLayout ==
    cPhase = "framed" =>
      LET n == Len(cBody)
      IN  /\ cRet = 12 + n + 1
          /\ cFrame[1] * 16777216 + cFrame[2] * 65536 + cFrame[3] * 256 + cFrame[4]
                = 12 + n + 1
          /\ \A i \in 1..8 :
                cFrame[4 + i] = IF i <= Len(cTarget) THEN cTarget[i] ELSE 0
          /\ \A i \in 1..n :
                cFrame[12 + i] = IF cEnc = "Packet_DefaultXor"
                                 THEN Xor8(cBody[i], 90) ELSE cBody[i]
          /\ cFrame[12 + n + 1] = SumBytes(cFrame, 12 + n)

\* a frame with a short target and a two-byte body under the XOR cipher
C12_Witness ==
    /\ cPhase = "framed" /\ cEnc = "Packet_DefaultXor"
    /\ Len(cBody) = 2 /\ cBody[1] # Xor8(cBody[1], 90)
    /\ Len(cTarget) = 4
    /\ cFrame[12 + 1] = Xor8(cBody[1], 90)

-----------------------------------------------------------------------------
(* Claims about the bounded blocking queue (checked under SpecQueue and,   *)
(* for progress, under FairSpecQueue)                                      *)

\* the items held by the linked nodes, head first
QueueItems == [i \in 1..Len(NodesFrom(queue.nodes, queue.head)) |->
                  queue.nodes[NodesFrom(queue.nodes, queue.head)[i]].data]

SeqRange(s) == { s[i] : i \in 1..Len(s) }

\* C2 -- FIFO: Dequeue returns the items in exactly the order in which their
\* Enqueue calls succeeded: the returns so far are the first accepted items.
C2_Fifo ==
    /\ Len(deqLog) <= Len(enqLog)
    /\ \A i \in 1..Len(deqLog) : deqLog[i] = enqLog[i]

\* three items went through the queue, taken by more than one consumer
C2_Witness ==
    /\ Len(deqLog) >= 3
    /\ Cardinality(takers) >= 2

C4_ExactlyOnce ==
    /\ \A i \in 1..Len(deqLog) : deqLog[i] # NIL
    /\ \A i, j \in 1..Len(deqLog) : i # j => deqLog[i] # deqLog[j]
    /\ SeqRange(deqLog) \subseteq SeqRange(enqLog)
    /\ queue.live =>
         /\ SeqRange(enqLog) = SeqRange(deqLog) \cup SeqRange(QueueItems)
         /\ SeqRange(deqLog) \cap SeqRange(QueueItems) = {}
         /\ Len(enqLog) = Len(deqLog) + Len(QueueItems)

\* two consumers each took an item while a third item is still queued
C4_Witness ==
    /\ queue.live
    /\ Len(deqLog) = 2 /\ Cardinality(takers) = 2
    /\ Len(QueueItems) = 1

\* C5 (as claimed) -- when consumers are blocked in Dequeue and k items are
\* then enqueued, at least min(k, number of blocked consumers) OF THOSE
\* consumers eventually return with an item.
C5_BlockedOnesServed ==
    (promise.set # {}) ~> (Kept(promise) \/ ~queue.live)

\* C5 (amended) -- no wake-up is lost: when consumers are blocked in Dequeue
\* and k items are then enqueued, at least min(k, number of blocked consumers)
\* Dequeue calls eventually return with an item; the calls are those of the
\* blocked consumers or of consumers that call Dequeue later and take the
\* item first.
C5_NoLostWakeup ==
    (promise.set # {})
      ~> (promise.returns >= Min(promise.k, Cardinality(promise.set)) \/ ~queue.live)

\* two consumers were blocked, two items were enqueued, both were returned
C5_Witness ==
    /\ Cardinality(promise.set) >= 2
    /\ promise.k >= 2
    /\ promise.got >= 2

\* the items that were in the queue when it was destroyed, head first
Remainder == SubSeq(enqLog, Len(deqLog) + 1, Len(enqLog))

\* C6 -- SafeQueue_Destroy calls the drop function exactly once for every item
\* still queued, in one pass from the head, and for no item already
\* dequeued; without a drop function it calls nothing; either way it releases
\* every node.
C6_DestroyDropsRemainder ==
    ~queue.live =>
      /\ dropLog = IF destroyArg = "NULL" THEN <<>> ELSE Remainder
      /\ \A i \in 1..Len(dropLog), j \in 1..Len(deqLog) : dropLog[i] # deqLog[j]
      /\ DOMAIN queue.nodes = {}

\* a queue that still held two items, after one had been dequeued, was
\* destroyed with a drop function
C6_Witness ==
    /\ ~queue.live /\ destroyArg = "FreeItem"
    /\ Len(dropLog) = 2
    /\ Len(deqLog) >= 1

\* C7 -- a consumer blocked in Dequeue when SafeQueue_Destroy runs is woken and
\* returns: once the queue is destroyed no consumer is left waiting on the
\* condition variable and none touches the released queue.
C7_DestroyWakesBlocked ==
    ~queue.live => \A c \in Consumers : cons[c] \notin {"waiting", "uaf"}

-----------------------------------------------------------------------------
(* Claims about the shutdown of the server (checked under FairSpecShutdown) *)

\* C1 (as stated in the specification): after Run has started the N workers
\* and the sender, Destroy always terminates: once Destroy is called, every
\* worker and the sender exit, the joins complete and Destroy returns, for
\* every worker count, every capacity and every content of the queues.  It is
\* stated here for the runs in which no allocation of Destroy fails.
C1_DestroyTerminates ==
    (dpc = "poison") ~> (dpc = "done" \/ allocFailed)

-----------------------------------------------------------------------------
(* Claims about the client session and the handshake (checked under        *)
(* SpecClient and, for progress, FairSpecClient)                           *)

\* a frame as the wire format defines it: at least header and checksum, the
\* big-endian length in its first four bytes equal to its length, its last
\* byte the sum of the bytes before it mod 256
WellFormedFrame(f) ==
    /\ Len(f) >= 13
    /\ f[1] < 128
    /\ f[1] * 16777216 + f[2] * 65536 + f[3] * 256 + f[4] = Len(f)
    /\ f[Len(f)] = SumBytes(f, Len(f) - 1)

\* the handshake frame: target "SEC_ARG", NUL-padded, and a body of the four
\* bytes of an int32
IsHandshakeFrame(f) ==
    /\ WellFormedFrame(f)
    /\ Len(f) = 17
    /\ SubSeq(f, 5, 12) = <<83, 69, 67, 95, 65, 82, 71, 0>>

\* C13 -- the first bytes this server writes to a client it accepted are one
\* well-formed plaintext frame with target "SEC_ARG" whose body is the int32
\* strategy code XOR = 1, and no application frame is written to that client
\* before it.
C13_HandshakeFrameFirst ==
    (listener = "TcpServer" /\ conn.first # <<>>) =>
        /\ IsHandshakeFrame(conn.first)
        /\ SubSeq(conn.first, 13, 16) = <<1, 0, 0, 0>>

\* C14 -- a session that connects to this server while it runs becomes
\* connected with the cipher pair XOR/XOR, under fair scheduling, for as long
\* as the application does not disconnect and the server does not stop.
C14_HandshakeCompletes ==
    (listener = "TcpServer" /\ cli_is_running /\ serverUp)
        ~> \/ /\ impl_IsConnected
              /\ cli_encrypt_fn = "Packet_DefaultXor"
              /\ cli_decrypt_fn = "Packet_DefaultXor"
           \/ ~cli_is_running
           \/ ~serverUp

C16_ConnectedOnlyAfterHandshake ==
    /\ sockfd # NO_FD =>
         /\ sockfd = sock /\ conn.open /\ shaken
         /\ npc \notin {"connect", "handshake", "sleep"}
    /\ impl_IsConnected <=> (cli_is_running /\ sockfd # NO_FD /\ shaken)

\* a session that is connected, its thread in the receive loop
C16_Witness ==
    /\ impl_IsConnected /\ shaken /\ npc = "recv" /\ conn.open

\* C17 -- after a handshake carrying strategy_code c the encrypt/decrypt pair
\* is the registry's for c, (XOR, XOR) for 1 and (none, none) for 0 and every
\* unknown code, from the moment the session is Connected and for as long as it
\* is, unless SetStrategy is called.
C17_StrategyInstalled ==
    (sockfd # NO_FD /\ ~strategySet) =>
        /\ SubSeq(hello, 13, 16) = <<hsCode % 256, 0, 0, 0>>
        /\ cli_encrypt_fn = IF hsCode = 1 THEN "Packet_DefaultXor" ELSE "NULL"
        /\ cli_decrypt_fn = IF hsCode = 1 THEN "Packet_DefaultXor" ELSE "NULL"

\* a session connected by a handshake with a code the registry does not know
C17_Witness ==
    /\ sockfd # NO_FD /\ ~strategySet /\ hsCode = 2
    /\ cli_encrypt_fn = "NULL" /\ cli_decrypt_fn = "NULL"

\* C18 -- an ill-formed handshake never connects the session: when the first
\* frame of the server has a target other than "SEC_ARG", a body that is not
\* four bytes long (shorter or longer) or fails Parse, the socket is closed,
\* sockfd stays none and the cipher pair stays as it was.
C18_IllFormedNeverConnects ==
    (listener = "other" /\ ~IsHandshakeFrame(hello)) =>
        /\ sockfd = NO_FD
        /\ npc # "handshake" => ~conn.open
        /\ ~strategySet =>
              cli_encrypt_fn = "Packet_DefaultXor" /\ cli_decrypt_fn = "Packet_DefaultXor"

\* C19 -- while Connected, a read error or peer close, a total_len outside
\* [header_size, DEFAULT_BUF_SIZE] and a Parse failure each end the session
\* (socket closed, sockfd none), and on_message is called only for frames
\* Parse returned Success for.
C19_ErrorsDisconnect ==
    /\ (lastRecv.kind \in {"closed", "badlen"}
          \/ (lastRecv.kind = "frame" /\ ~WellFormedFrame(lastRecv.frame))) =>
         /\ sockfd = NO_FD /\ ~conn.open
         /\ ~lastRecv.called
    /\ lastRecv.called => WellFormedFrame(lastRecv.frame)
    /\ (lastRecv.kind = "frame" /\ WellFormedFrame(lastRecv.frame)) =>
         lastRecv.called /\ sockfd # NO_FD

\* a frame with a wrong checksum ended a session
C19_Witness ==
    /\ lastRecv.kind = "frame" /\ ~lastRecv.called
    /\ Len(lastRecv.frame) = 14
    /\ sockfd = NO_FD /\ ~conn.open

\* C20 -- Disconnect always returns: wherever the network thread is, it exits
\* and the join completes, after which sockfd is none and is_connected() is
\* false.
C20_DisconnectReturns ==
    (jpc = "shutdown") ~> (jpc = "idle" /\ sockfd = NO_FD /\ ~impl_IsConnected)

C22_SendNeverOnClosedFd ==
    (lastSend.called /\ lastSend.writes = 1) => ~lastSend.stale

\* C23 -- ResetConnection is idempotent: called twice in succession it leaves
\* what one call leaves, the socket closed at most once, sockfd none, and the
\* cipher pair the XOR/XOR a new session starts with.
C23_ResetIdempotent ==
    LET once == ResetConnection(Ctx)
        twice == ResetConnection(once)
    IN  /\ twice = once
        /\ once.sockfd = -1
        /\ once.encrypt_fn = "Packet_DefaultXor" /\ once.decrypt_fn = "Packet_DefaultXor"
        /\ once.closed = IF sockfd # -1 THEN <<sockfd>> ELSE <<>>
        /\ npc = "exited" =>
             /\ sockfd = once.sockfd /\ ~conn.open
             /\ strategySet \/ (cli_encrypt_fn = once.encrypt_fn
                                 /\ cli_decrypt_fn = once.decrypt_fn)

\* the thread has ended, with the reset of its last lines, after a session
\* that a reset of the receive loop had ended before
C23_Witness ==
    /\ npc = "exited" /\ lastRecv.lost
    /\ sockfd = -1 /\ cli_encrypt_fn = "Packet_DefaultXor"

-----------------------------------------------------------------------------
(* Claims about the traffic of the server (checked under SpecOutbound and  *)
(* SpecInbound)                                                            *)

\* the items of queue q, head first
ItemsOf(q) ==
    [i \in 1..Len(NodesFrom(q.nodes, q.head)) |-> q.nodes[NodesFrom(q.nodes, q.head)[i]].data]

\* the calls of Send / Broadcast made while the server was running
RunningCalls == SelectSeq(callLog, LAMBDA c : c.running)

\* the tasks that Send / Broadcast stored, in the order of their calls
SendOrder ==
    LET stored == SelectSeq(callLog, LAMBDA c : c.result)
    IN  [i \in 1..Len(stored) |-> stored[i].task]

\* how many of the first n calls of log returned true
Accepted(log, n) == Cardinality({ j \in 1..n : log[j].result })

\* the sender thread has not taken a task off the send queue
NothingDequeued == send_queue.count = Len(SendOrder)

\* what C24 says of every single call: false and nothing stored when the
\* server is not running or the queue is full; true exactly when stored
C24_EachCall ==
    \A i \in 1..Len(callLog) :
       /\ (~callLog[i].running \/ callLog[i].before.count = callLog[i].before.capacity)
             => (~callLog[i].result /\ callLog[i].after = callLog[i].before)
       /\ callLog[i].result
             <=> /\ callLog[i].task \in SeqRange(ItemsOf(callLog[i].after))
                 /\ callLog[i].task \notin SeqRange(ItemsOf(callLog[i].before))
       /\ ~callLog[i].result => callLog[i].after = callLog[i].before

\* C24 (as claimed) -- Send and Broadcast return false, storing nothing, when
\* the server is not running or the send queue is full, and true exactly when
\* the task was stored; with capacity C and a sender that does not dequeue,
\* the first C calls return true and every further call returns false.
C24_FirstCapacityCalls ==
    /\ C24_EachCall
    /\ NothingDequeued
         => \A i \in 1..Len(RunningCalls) :
               RunningCalls[i].result <=> i <= send_queue.capacity

\* C24 (amended) -- Send and Broadcast return false, storing nothing, when the
\* server is not running or the send queue is full, and true exactly when the
\* task was stored; with capacity C and a sender that does not dequeue, a
\* call returns true exactly when fewer than C calls returned true before it
\* and its allocations succeed, so at most C calls return true.
C24_FirstCapacityStored ==
    /\ C24_EachCall
    /\ NothingDequeued
         => /\ \A i \in 1..Len(RunningCalls) :
                  RunningCalls[i].result
                    <=> /\ Accepted(RunningCalls, i - 1) < send_queue.capacity
                        /\ ~RunningCalls[i].alloc_failed
            /\ Accepted(RunningCalls, Len(RunningCalls)) <= send_queue.capacity

\* a call before Run was refused, then C calls returned true and the next one
\* false, its allocations sound, while the sender had taken nothing
C24_Witness ==
    /\ NothingDequeued
    /\ Len(callLog) = MaxCalls
    /\ ~callLog[1].running /\ ~callLog[1].result
    /\ send_queue.count = send_queue.capacity
    /\ callLog[MaxCalls].running /\ ~callLog[MaxCalls].alloc_failed
    /\ ~callLog[MaxCalls].result

\* the place of task t in the order of the successful calls (0: not there)
SendPos(t) ==
    IF t \in SeqRange(SendOrder) THEN CHOOSE i \in 1..Len(SendOrder) : SendOrder[i] = t
    ELSE 0

\* the writes of task t
WritesOf(t) == { i \in 1..Len(writeLog) : writeLog[i].task = t }

\* C25 -- the sender thread performs the socket writes of the send tasks in
\* the order in which their Send / Broadcast calls succeeded, for every
\* interleaving of the callers: every write is of a stored task, no write of
\* a task comes after a write of a later task, and when a task is written
\* every unicast task stored before it has had its one write.
C25_WritesInCallOrder ==
    /\ \A i \in 1..Len(writeLog) : SendPos(writeLog[i].task) > 0
    /\ \A i, j \in 1..Len(writeLog) :
          i < j => SendPos(writeLog[i].task) <= SendPos(writeLog[j].task)
    /\ \A k \in 1..Len(callLog) :
          (callLog[k].result /\ ~callLog[k].is_broadcast) =>
             /\ Cardinality(WritesOf(callLog[k].task)) <= 1
             /\ (\E i \in 1..Len(writeLog) :
                    SendPos(writeLog[i].task) > SendPos(callLog[k].task))
                  => Cardinality(WritesOf(callLog[k].task)) = 1

\* two tasks were on the send queue together and both were written, one of
\* them a broadcast to two clients
C25_Witness ==
    /\ \E k \in 1..Len(callLog) : callLog[k].result /\ callLog[k].before.count = 1
    /\ \E i, j \in 1..Len(writeLog) :
          /\ writeLog[i].task # writeLog[j].task
          /\ Cardinality(WritesOf(writeLog[i].task)) = 2
    /\ Len(SendOrder) = MaxCalls

\* the fds task t was written to, in the order of the writes
FdsWritten(t) ==
    LET ws == SelectSeq(writeLog, LAMBDA w : w.task = t)
    IN  [i \in 1..Len(ws) |-> ws[i].fd]

\* C26 -- a broadcast is atomic with respect to the roster: the sender holds
\* the roster mutex for the whole iteration, so from the first write to the
\* last the roster is the one the sender found when it took the mutex (no
\* AddClient or RemoveClient takes effect), and every fd of that roster gets
\* exactly one write of the frame.
C26_BroadcastAtomic ==
    /\ spc = "broadcast" =>
          /\ client_list_mutex = "sender"
          /\ client_list = bcast.roster
          /\ FdsWritten(bcast.task) \o bcast.curr = bcast.roster
    /\ (spc # "broadcast" /\ bcast.task # NIL) => FdsWritten(bcast.task) = bcast.roster
    /\ \A i, j \in 1..Len(bcast.roster) : i # j => bcast.roster[i] # bcast.roster[j]

\* a broadcast to two clients is over, and a client has left since
C26_Witness ==
    /\ spc # "broadcast" /\ bcast.task # NIL
    /\ Len(bcast.roster) = 2
    /\ Len(FdsWritten(bcast.task)) = 2
    /\ Len(client_list) = 1

\* C28 -- set_strategy replaces the pair atomically: no state is observable
\* in which the context holds the new encrypt function together with the old
\* decrypt function, or the other way round.  Here: whenever the sender thread
\* is about to serialize a task with ctx->encrypt_fn, the pair of the context
\* is the pair before the call of SetStrategy or the pair it was called with.
C28_PairReplacedAtomically ==
    (setpc.pc # "idle" /\ ENABLED SenderTask)
       => <<encrypt_fn, decrypt_fn>> \in {setpc.old, <<setpc.enc, setpc.dec>>}

\* the callbacks made for client fd, in order
CallbacksOf(fd) == SelectSeq(cbLog, LAMBDA c : c.client_fd = fd)

\* the tasks the read path enqueued for client fd, in order
RecvTasksOf(fd) == SelectSeq(recvLog, LAMBDA t : t.client_fd = fd)

\* the place of task t among the tasks enqueued for client fd (0: not there)
RecvPos(fd, t) ==
    IF \E i \in 1..Len(RecvTasksOf(fd)) : RecvTasksOf(fd)[i].task = t
    THEN CHOOSE i \in 1..Len(RecvTasksOf(fd)) : RecvTasksOf(fd)[i].task = t
    ELSE 0

\* C27 -- with a single worker (worker_count = 1), for every client the
\* callback is invoked for that client's successfully parsed frames in the
\* order in which the read path enqueued their tasks: every callback is for
\* an enqueued task of the client, whose buffer parses, and a callback for a
\* later task never precedes one for an earlier task.
C27_CallbacksInReadOrder ==
    worker_count = 1 =>
       \A fd \in PipeFds :
          /\ \A i \in 1..Len(CallbacksOf(fd)) :
                /\ RecvPos(fd, CallbacksOf(fd)[i].task) > 0
                /\ WellFormedFrame(RecvTasksOf(fd)[RecvPos(fd, CallbacksOf(fd)[i].task)].data)
          /\ \A i, j \in 1..Len(CallbacksOf(fd)) :
                i < j => RecvPos(fd, CallbacksOf(fd)[i].task)
                           < RecvPos(fd, CallbacksOf(fd)[j].task)

\* one worker; two frames of one client were read one by one, and the worker
\* made the callback for each
C27_Witness ==
    /\ worker_count = 1
    /\ \E fd \in PipeFds : Len(CallbacksOf(fd)) = 2 /\ Len(RecvTasksOf(fd)) = 2

\* every byte client fd wrote was read and enqueued, and every task of the
\* client was handled by a worker and released
StreamHandled(fd) ==
    /\ wire[fd] = <<>>
    /\ Concat([i \in 1..Len(RecvTasksOf(fd)) |-> RecvTasksOf(fd)[i].data])
          = Concat(wroteLog[fd])
    /\ \A i \in 1..Len(RecvTasksOf(fd)) : RecvTasksOf(fd)[i].task \notin DOMAIN tasks

\* C29 -- the server frames its input per connection: bytes are accumulated
\* across reads, every read emits the complete frames it completes and the
\* rest is retained, so two frames that arrive in one read are both
\* dispatched and a frame split over two reads is dispatched once.  Here:
\* once the bytes of a client were all read and handled, there was one
\* callback for each frame the client wrote, with the body of that frame.
C29_FramesReassembled ==
    \A fd \in PipeFds :
       StreamHandled(fd) =>
          /\ Len(CallbacksOf(fd)) = Len(wroteLog[fd])
          /\ { CallbacksOf(fd)[i].body : i \in 1..Len(CallbacksOf(fd)) }
                = { <<n>> : n \in 1..Len(wroteLog[fd]) }

-----------------------------------------------------------------------------
(* The shape of the queue (checked under SpecQueue)                        *)

\* the structure of a live queue: count within bounds, count nodes linked
\* from head, no other node allocated, head and tail null together with
\* count zero, tail the last linked node
QueueShape ==
    queue.live =>
       /\ 0 <= queue.count /\ queue.count <= queue.capacity
       /\ queue.count = Len(NodesFrom(queue.nodes, queue.head))
       /\ DOMAIN queue.nodes = SeqRange(NodesFrom(queue.nodes, queue.head))
       /\ (queue.head = NIL) <=> (queue.count = 0)
       /\ (queue.tail = NIL) <=> (queue.count = 0)
       /\ queue.count > 0 =>
             queue.tail = NodesFrom(queue.nodes, queue.head)[queue.count]

\* what a step does to a live queue: a successful Enqueue adds one item at
\* the tail, a failed one changes nothing, a Dequeue that returns takes one
\* item off the head, and nothing else changes the queue
QueueStep ==
    (queue.live /\ queue'.live) =>
       /\ (lastEnq'.called /\ lastEnq'.result) =>
             /\ queue'.count = queue.count + 1
             /\ ItemsOf(queue') = Append(ItemsOf(queue), lastEnq'.data)
       /\ (lastEnq'.called /\ ~lastEnq'.result) => queue' = queue
       /\ (lastEnq'.called /\ (lastEnq'.data = NIL \/ queue.count = queue.capacity))
             => ~lastEnq'.result
       /\ Len(deqLog') > Len(deqLog) =>
             /\ queue'.count = queue.count - 1
             /\ ItemsOf(queue') = Tail(ItemsOf(queue))
       /\ (~lastEnq'.called /\ Len(deqLog') = Len(deqLog)) => queue' = queue

\* C30 -- in every reachable state of a queue 0 <= count <= capacity, count
\* is the number of linked nodes, and head is null iff count is 0 iff tail is
\* null; each successful Enqueue raises count by one, each Dequeue lowers it
\* by one, and a failed Enqueue (queue full or null item) leaves count and
\* contents unchanged.
C30_CountIsLinkedNodes == [](QueueShape) /\ [][QueueStep]_vars

\* a null item was refused by a queue that holds an item, after a Dequeue
C30_Witness ==
    /\ queue.live
    /\ lastEnq.called /\ lastEnq.data = NIL /\ ~lastEnq.result
    /\ queue.count > 0 /\ queue.count < queue.capacity
    /\ Len(deqLog) > 0

-----------------------------------------------------------------------------
(* The effects of Packet_Parse (checked under SpecCodec)                   *)

\* C40 -- Packet_Parse changes the input buffer and writes its output
\* parameters only when it returns Success: for TooShort, LengthMismatch and
\* ChecksumFail every byte of the buffer and out_target, out_body_ptr and
\* out_body_len are as they were handed in; on Success the buffer keeps its
\* length and only the bytes of the body region may differ.
C40_ParseWritesOnlyOnSuccess ==
    cPhase = "parsed" =>
       IF cOut.result = PKT_SUCCESS
       THEN /\ Len(cBuf) = Len(cPre)
            /\ \A i \in 1..Len(cPre) :
                  (i <= HEADER_SIZE \/ i >= cInLen) => cBuf[i] = cPre[i]
       ELSE /\ cOut.result \in {PKT_ERR_TOO_SHORT, PKT_ERR_LENGTH_MISMATCH,
                                PKT_ERR_CHECKSUM_FAIL}
            /\ cBuf = cPre
            /\ cOut.in_buffer = cPre
            /\ cOut.out_target \in { Fresh(TARGET_NAME_LEN + 1, fill) : fill \in FillBytes }
            /\ cOut.out_body_ptr = <<0>>
            /\ cOut.out_body_len = <<0>>

\* a frame with a flipped bit was refused by a Parse that was handed a
\* decrypt function and a body to decrypt
C40_Witness ==
    /\ cPhase = "parsed"
    /\ cOut.result = PKT_ERR_CHECKSUM_FAIL
    /\ cDec # "NULL"
    /\ Len(cBody) > 0
    /\ cMut.kind = "flip"

-----------------------------------------------------------------------------
(* The poison pills and the tasks at shutdown (checked under SpecShutdown)  *)

\* C31 (as stated in the specification) -- Destroy places exactly one recv
\* poison pill per worker on the recv queue and exactly one send poison pill
\* on the send queue, whatever the two queues hold at that moment, full
\* queues included: every round of the first loop of Destroy whose
\* allocations succeed appends its pill to the recv queue, and the step after
\* the loop appends the pill of the sender to the send queue.
C31_OnePillPerConsumer ==
    [][ /\ (dpc = "poison" /\ di < worker_count /\ di' = di + 1 /\ ~allocFailed')
           => ItemsOf(recv_queue') = Append(ItemsOf(recv_queue), RecvPoison(di + 1))
        /\ (dpc = "poison" /\ dpc' = "join" /\ ~allocFailed')
           => ItemsOf(send_queue') = Append(ItemsOf(send_queue), SendPoison) ]_vars

\* C32 (as stated in the specification) -- every RecvTask, SendTask and poison
\* task that the read path, Send, Broadcast or Destroy allocated is released
\* exactly once, by its consumer, by its producer when Enqueue returns false,
\* or by the drop function of the queue at Destroy: when Destroy has returned
\* no task is left on the heap.
C32_NoTaskLeaked ==
    dpc = "done" => DOMAIN tasks = {}

-----------------------------------------------------------------------------
(* The worker and the callback (checked under SpecInbound)                  *)

\* what Packet_Parse returns on the bytes of a task, with the decrypt function
\* of the server
ParseResultOf(data) ==
    Packet_Parse(data, Len(data), decrypt_fn, Fresh(TARGET_NAME_LEN + 1, 0), <<0>>, <<0>>).result

\* the calls of on_message made for task t
CallsFor(t) == { i \in 1..Len(cbLog) : cbLog[i].task = t }

HeldTasks == { held[w] : w \in Workers } \ {NIL}

\* the tasks linked in a queue
TasksIn(q) == { ItemsOf(q)[i] : i \in 1..Len(ItemsOf(q)) }

\* C35 -- the server calls the user callback only for RecvTasks on whose buffer
\* Packet_Parse returned Success, and with the client fd of the task; a task
\* whose parse failed is discarded with no callback and no send task; either
\* way the task and its buffer are released and the worker goes on to the
\* next task.
C35_CallbackOnlyOnSuccess ==
    /\ \A j \in 1..Len(recvLog) :
          LET t == recvLog[j].task
          IN  /\ \A i \in CallsFor(t) :
                    /\ ParseResultOf(recvLog[j].data) = PKT_SUCCESS
                    /\ cbLog[i].client_fd = recvLog[j].client_fd
              /\ t \in DOMAIN tasks
                   => (t \in TasksIn(recv_queue) \/ t \in HeldTasks) /\ CallsFor(t) = {}
              /\ t \notin DOMAIN tasks
                   => /\ t \notin TasksIn(recv_queue) /\ t \notin HeldTasks
                      /\ Cardinality(CallsFor(t)) =
                            IF ParseResultOf(recvLog[j].data) = PKT_SUCCESS THEN 1 ELSE 0
    /\ \A i \in 1..Len(cbLog) : \E j \in 1..Len(recvLog) : recvLog[j].task = cbLog[i].task
    /\ \A w \in Workers : (held[w] # NIL) <=> (wpc[w] = "parse")
    /\ send_queue.count = 0

\* a worker has handled a task whose parse failed and then one whose parse
\* succeeded: one callback, both tasks released
C35_Witness ==
    \E j, k \in 1..Len(recvLog) :
        /\ j < k
        /\ ParseResultOf(recvLog[j].data) # PKT_SUCCESS
        /\ ParseResultOf(recvLog[k].data) = PKT_SUCCESS
        /\ recvLog[j].task \notin DOMAIN tasks
        /\ recvLog[k].task \notin DOMAIN tasks
        /\ CallsFor(recvLog[k].task) # {}

-----------------------------------------------------------------------------
(* Destroy without Run (checked under SpecUnstarted)                        *)

\* C39 (as stated in the specification) -- Destroy joins only threads that Run
\* created: whenever Destroy is at a pthread_join, the thread it names was
\* started; on a context whose Run was never called Destroy completes without
\* joining a thread that never started.
C39_JoinsOnlyStarted ==
    dpc = "join" => IF di < worker_count THEN wpc[di + 1] # "none" ELSE spc # "none"

-----------------------------------------------------------------------------
(* The roster and the descriptors (checked under SpecRoster and, for the    *)
(* unicast sends, SpecUnicast)                                              *)

\* C33 (as stated in the specification) -- when a step after accept fails
\* (setting the descriptor non-blocking, registering it, adding it to the
\* roster, sending the handshake) the new descriptor is closed and the roster
\* and its cached count are what they were before the accept.
C33_FailedAcceptUndone ==
    [][ (lastAccept'.n = lastAccept.n + 1 /\ lastAccept'.failed)
          => /\ fdtab'[lastAccept'.fd] = NIL
             /\ client_list' = client_list
             /\ current_client_count' = current_client_count ]_vars

\* C36 -- in every state in which the roster mutex is not held, the cached
\* client count is the number of fds in the roster, whatever accepts and
\* disconnects came before (an AddClient whose node allocation failed and a
\* RemoveClient of an fd that is not in the roster included), and
\* GetClientCount returns that number.
C36_CountIsRosterSize ==
    client_list_mutex = "free"
      => /\ current_client_count = Cardinality(Fds(client_list))
         /\ current_client_count = Len(client_list)
         /\ impl_GetClientCount = Len(client_list)

\* the node of the only accept so far could not be allocated, its connection
\* was closed since, and the RemoveClient of that fd, which the roster never
\* held, has returned
C36_Witness ==
    /\ client_list_mutex = "free" /\ io.pc = "idle"
    /\ lastAccept.n = 1 /\ ~lastAccept.linked
    /\ fdtab[lastAccept.fd] = NIL
    /\ impl_GetClientCount = 0

\* C37 (as stated in the specification) -- whenever the roster mutex is free,
\* every fd in the roster is an open client socket, so that a broadcast never
\* writes to a descriptor the read path has closed.
C37_RosterFdsOpen ==
    client_list_mutex = "free" => \A fd \in Fds(client_list) : fdtab[fd] # NIL

\* C38 (as stated in the specification) -- a unicast send task enqueued for
\* fd f is written only to the connection that f named when Send was called:
\* at the write, f names that connection still, or nothing (it was closed),
\* never a client accepted later under the same descriptor number.
C38_UnicastToNamedConnection ==
    [][ Len(writeLog') = Len(writeLog) + 1
          => \A i \in 1..Len(callLog) :
                (/\ callLog[i].task = writeLog'[Len(writeLog')].task
                 /\ ~callLog[i].is_broadcast
                 /\ callLog[i].conn # NIL)
                  => fdtab[writeLog'[Len(writeLog')].fd] \in {callLog[i].conn, NIL} ]_vars

-----------------------------------------------------------------------------
(* The roster and the parse errors (checked under SpecSession)              *)

\* C34 (as stated in the specification) -- an fd is put on the roster on
\* accept and removed when the server observes a peer close, a read error or
\* a parse error on the data of that client, and after any of these the fd is
\* no longer in the roster: when a worker is done with a task whose parse
\* failed, the fd of that task is not in the roster.
C34_ParseErrorRemovesClient ==
    [][ \A w \in Workers :
          (/\ wpc[w] = "parse" /\ wpc'[w] # "parse"
           /\ ParseResultOf(tasks[held[w]].data) # PKT_SUCCESS)
            => tasks[held[w]].client_fd \notin Fds(client_list') ]_vars

====
